---------------------------- MODULE Spec2Model ----------------------------
(***************************************************************************)
(* A model of the text-quality analysis pipeline of writewise-nlp:         *)
(*   - spell_checker/service.py      check_spelling                        *)
(*   - nlp/spell_normalizer.py       normalize_word                        *)
(*   - context_analyzer/grammar_rules.py  GrammarRuleChecker.check         *)
(*   - decision_engine/error_fusion.py    ErrorFusionEngine.fuse           *)
(*   - decision_engine/severity_manager.py SeverityManager.classify        *)
(*   - main.py                       predict_text_quality                  *)
(*                                                                         *)
(* Python strings are sequences of one-character strings, so that          *)
(* lower(), split(), strip() and the \b\w+\b scan are computed character   *)
(* by character.  Python dicts are functions from key strings to values.   *)
(* A Python value whose type matters (a list item that may or may not be   *)
(* a mapping, a sentence that may or may not be a str, an optional         *)
(* subject) is a tagged record: PyDict(d), PyStr(s), PyInt(n), PyNone.     *)
(* A call that may raise returns [raised |-> TRUE] or                      *)
(* [raised |-> FALSE, value |-> v].                                        *)
(***************************************************************************)
EXTENDS Integers, Sequences, FiniteSets, TLC

VARIABLES
    pc,                          \* position of the running call
    text,                        \* the raw input text (a string)
    spell_errors,                \* fuse argument / check_spelling result
    grammar_issues,              \* fuse argument
    sentences,                   \* fuse argument
    writing_style,               \* fuse argument
    ml_spell_confidences,        \* fuse argument
    final_issues,                \* fuse local, returned at the end
    sentences_with_contractions, \* fuse local
    sentence_data,               \* GrammarRuleChecker.check argument
    check_result,                \* GrammarRuleChecker.check outcome
    tagger,                      \* the tokenizing / tagging capability (NLTK)
    spell_context_model,         \* predict_text_quality argument
    style_classifier,            \* predict_text_quality argument
    model,                       \* predict_text_quality argument
    sentence_data_list,          \* predict_text_quality local
    response,                    \* what predict_text_quality returned
    features,                    \* the feature mapping built for a classifier
    feature_vector,              \* the values handed to the classifier
    dictionary,                  \* service.py's module-level DICTIONARY
    engines,                     \* main.py's module-level engine objects
    calls                        \* the analysis calls in flight

\* the capabilities handed to predict_text_quality, its sentence list and
\* its response
pipeline_vars == << tagger, spell_context_model, style_classifier, model,
                    sentence_data_list, response >>

\* what a classifier is handed
feature_vars == << features, feature_vector >>

\* what analysis calls share, and the calls in flight
shared_vars == << dictionary, engines, calls >>

vars == << pc, text, spell_errors, grammar_issues, sentences, writing_style,
           ml_spell_confidences, final_issues, sentences_with_contractions,
           sentence_data, check_result, pipeline_vars, feature_vars,
           shared_vars >>

----------------------------------------------------------------------------
(* Python values *)

PyNone == [t |-> "none"]
PyInt(n) == [t |-> "int", v |-> n]
PyStr(s) == [t |-> "str", v |-> s]
PyDict(d) == [t |-> "dict", v |-> d]

\* a list of mappings
PyDicts(items) == [ k \in DOMAIN items |-> PyDict(items[k]) ]

Ok(v) == [raised |-> FALSE, value |-> v]
Raised == [raised |-> TRUE]

EmptyDict == << >>

HasKey(d, k) == k \in DOMAIN d

DictSet(d, k, val) ==
    [x \in (DOMAIN d) \cup {k} |-> IF x = k THEN val ELSE d[x]]

Range(s) == { s[i] : i \in DOMAIN s }

SeqsUpTo(S, n) == UNION { [1..k -> S] : k \in 0..n }

----------------------------------------------------------------------------
(* Python str operations, character by character *)

UpperChars == << "A","B","C","D","E","F","G","H","I","J","K","L","M",
                 "N","O","P","Q","R","S","T","U","V","W","X","Y","Z" >>
LowerChars == << "a","b","c","d","e","f","g","h","i","j","k","l","m",
                 "n","o","p","q","r","s","t","u","v","w","x","y","z" >>
DigitChars == { "0","1","2","3","4","5","6","7","8","9" }
SpaceChars == { " ", "\t", "\n" }

IsUpperChar(c) == \E i \in DOMAIN UpperChars : UpperChars[i] = c
IsLowerChar(c) == \E i \in DOMAIN LowerChars : LowerChars[i] = c
IsAlphaChar(c) == IsUpperChar(c) \/ IsLowerChar(c)
IsDigitChar(c) == c \in DigitChars
IsAlnumChar(c) == IsAlphaChar(c) \/ IsDigitChar(c)
IsSpaceChar(c) == c \in SpaceChars

LowerChar(c) ==
    IF IsUpperChar(c)
    THEN LowerChars[CHOOSE i \in DOMAIN UpperChars : UpperChars[i] = c]
    ELSE c

\* str.lower()
Lower(s) == [i \in 1..Len(s) |-> LowerChar(s[i])]

\* s[a:b] with 0-based Python slice bounds 0 <= a, b <= len(s)
Slice(s, a, b) == IF b <= a THEN << >> ELSE SubSeq(s, a + 1, b)

\* str.split(): the maximal runs of non-whitespace characters
RECURSIVE SplitFrom(_, _, _, _)
SplitFrom(s, i, cur, acc) ==
    IF i > Len(s)
    THEN IF cur = << >> THEN acc ELSE Append(acc, cur)
    ELSE IF IsSpaceChar(s[i])
         THEN SplitFrom(s, i + 1, << >>,
                        IF cur = << >> THEN acc ELSE Append(acc, cur))
         ELSE SplitFrom(s, i + 1, Append(cur, s[i]), acc)

Split(s) == SplitFrom(s, 1, << >>, << >>)

\* s.endswith(suffix)
EndsWith(s, suffix) ==
    /\ Len(s) >= Len(suffix)
    /\ SubSeq(s, Len(s) - Len(suffix) + 1, Len(s)) = suffix

\* s.startswith(prefix)
StartsWith(s, prefix) ==
    /\ Len(s) >= Len(prefix)
    /\ SubSeq(s, 1, Len(prefix)) = prefix

\* " ".join(words)
RECURSIVE JoinWords(_)
JoinWords(ws) ==
    IF Len(ws) = 0 THEN << >>
    ELSE IF Len(ws) = 1 THEN ws[1]
    ELSE ws[1] \o << " " >> \o JoinWords(Tail(ws))

----------------------------------------------------------------------------
(* decision_engine/severity_manager.py *)

LOW == "low"
MEDIUM == "medium"
HIGH == "high"

GrammarTypes == { "tense_mismatch", "subject_verb_agreement", "missing_auxiliary" }

classify(issue_type) ==
    IF issue_type \in { "spelling" } THEN MEDIUM
    ELSE IF issue_type \in GrammarTypes THEN HIGH
    ELSE LOW

----------------------------------------------------------------------------
(* decision_engine/error_fusion.py *)

CONTRACTIONS ==
    { <<"d","o","n","t">>,
      <<"d","o","e","s","n","t">>,
      <<"d","i","d","n","t">>,
      <<"c","a","n","t">>,
      <<"c","o","u","l","d","n","t">>,
      <<"s","h","o","u","l","d","n","t">>,
      <<"w","o","u","l","d","n","t">>,
      <<"w","o","n","t">>,
      <<"i","s","n","t">>,
      <<"a","r","e","n","t">>,
      <<"w","a","s","n","t">>,
      <<"w","e","r","e","n","t">>,
      <<"h","a","s","n","t">>,
      <<"h","a","v","e","n","t">>,
      <<"h","a","d","n","t">>,
      <<"c","o","u","l","d","v","e">>,
      <<"s","h","o","u","l","d","v","e">>,
      <<"w","o","u","l","d","v","e">>,
      <<"i","m">>,
      <<"y","o","u","r","e">>,
      <<"w","e","r","e">>,
      <<"t","h","e","y","r","e">>,
      <<"i","t","s">>,
      <<"t","h","e","r","e","s">>,
      <<"h","e","r","e","s">>,
      <<"w","h","a","t","s">>,
      <<"w","h","o","s">> }

\* Confidence values are probabilities in hundredths (0..100).
\* `confidence < 0.7` (line 114) and the default 1.0 of `.get(word, 1.0)`.
ConfidenceCutoff == 70
DefaultConfidence == 100

\* dict(error), line 99: a mapping is copied, an empty str gives {}, and
\* None, an int or a non-empty str raise TypeError / ValueError.
DictCopy(error) ==
    IF error.t = "dict" THEN Ok(error.v)
    ELSE IF error.t = "str" /\ error.v = << >> THEN Ok(EmptyDict)
    ELSE Raised

\* error_copy.get("word") or error_copy.get("token") or error_copy.get("error_word")
\* PyNone when every one of them is missing; "" (falsy) is passed over.
SpellWord(d) ==
    IF HasKey(d, "word") /\ d["word"] # << >> THEN PyStr(d["word"])
    ELSE IF HasKey(d, "token") /\ d["token"] # << >> THEN PyStr(d["token"])
    ELSE IF HasKey(d, "error_word") THEN PyStr(d["error_word"])
    ELSE PyNone

\* `not word`
NoWord(w) == w.t = "none" \/ w.v = << >>

\* ml_spell_confidences.get(word, 1.0)
ConfidenceOf(conf, word) ==
    IF word \in DOMAIN conf THEN conf[word] ELSE DefaultConfidence

\* the mutant of MarkSuggestion: `<=` for `<`
MarkSuggestionInclusive(d, confidence) ==
    IF confidence <= ConfidenceCutoff THEN DictSet(d, "type", "suggestion") ELSE d

\* lines 114-115
MarkSuggestion(d, confidence) ==
    IF confidence < ConfidenceCutoff THEN DictSet(d, "type", "suggestion") ELSE d

\* ErrorFusionEngine._process_spell_error
ProcessSpellError(error, style, conf) ==
    LET severity == classify("spelling")
        copy == DictCopy(error)
    IN  IF copy.raised THEN Raised
        ELSE LET error_copy == copy.value
                 word == SpellWord(error_copy)
             IN  IF NoWord(word)
                 THEN Ok(DictSet(DictSet(error_copy, "severity", severity),
                                 "issue_type", "spelling"))
                 ELSE LET confidence == ConfidenceOf(conf, word.v)
                          marked == MarkSuggestion(error_copy, confidence)
                      IN  Ok(DictSet(DictSet(marked, "severity", severity),
                                     "issue_type", "spelling"))

\* a _process_spell_error that writes into the mapping it is handed
ErrorWrittenInPlace(error, style, conf) ==
    IF error.t = "dict"
    THEN PyDict(ProcessSpellError(error, style, conf).value)
    ELSE error

\* the item of spell_errors after _process_spell_error has run on it:
\* lines 106-118 assign to error_copy, the new mapping that dict(error)
\* built at line 99, and lines 101-111 only read; the item is not written
ErrorAfterProcessing(error, style, conf) == error

StyleMessage == "Avoid informal contractions in formal academic writing."

\* the loop over tokens of detect_contraction_style_issue, lines 135-142
RECURSIVE ContractionIssues(_, _, _)
ContractionIssues(tokens, i, sentence_id) ==
    IF i > Len(tokens) THEN << >>
    ELSE IF tokens[i] \in CONTRACTIONS
         THEN << [ sentence_id |-> sentence_id,
                   type |-> "style",
                   message |-> StyleMessage,
                   token |-> tokens[i] ] >>
              \o ContractionIssues(tokens, i + 1, sentence_id)
         ELSE ContractionIssues(tokens, i + 1, sentence_id)

\* detect_contraction_style_issue(sentence, sentence_id, writing_style)
detect_contraction_style_issue(sentence, sentence_id, style) ==
    IF style # "formal" THEN << >>
    ELSE IF sentence.t # "str" THEN << >>
    ELSE ContractionIssues(Split(Lower(sentence.v)), 1, sentence_id)

\* the mutant of AppendIssue: the issue is put in front
PrependIssue(issues, issue) == << issue >> \o issues

\* final_issues.append(issue), lines 48 and 82
AppendIssue(issues, issue) == Append(issues, issue)

\* the mutant of ExtendIssues: the new issues are put in front
ExtendIssuesFront(issues, more) == more \o issues

\* final_issues.extend(style_issues), line 65
ExtendIssues(issues, more) == issues \o more

\* the mutant of AfterFailure: `break` for `continue`
AfterFailureBreak(i, n) == n + 1

\* `except Exception: continue` (lines 49-50, 66-67, 84-85): the index of
\* the item the loop over n items goes on with after item i has raised
AfterFailure(i, n) == i + 1

\* pass 1, lines 42-50: a raising item is skipped
RECURSIVE SpellLoop(_, _, _, _, _)
SpellLoop(errors, i, style, conf, acc) ==
    IF i > Len(errors) THEN acc
    ELSE LET r == ProcessSpellError(errors[i], style, conf)
         IN  IF r.raised
             THEN SpellLoop(errors, AfterFailure(i, Len(errors)), style, conf, acc)
             ELSE SpellLoop(errors, i + 1, style, conf, AppendIssue(acc, r.value))

\* pass 2, lines 55-67: enumerate(sentences) numbers the sentences from 0;
\* acc is [issues, marked]
RECURSIVE StyleLoop(_, _, _, _)
StyleLoop(sents, i, style, acc) ==
    IF i > Len(sents) THEN acc
    ELSE LET sentence_id == i - 1
             style_issues == detect_contraction_style_issue(sents[i], sentence_id, style)
         IN  StyleLoop(sents, i + 1, style,
                       IF style_issues # << >>
                       THEN [ issues |-> ExtendIssues(acc.issues, style_issues),
                              marked |-> acc.marked \cup { sentence_id } ]
                       ELSE acc)

\* the mutant of Suppressed: every grammar issue of a formal text is dropped
SuppressedWheneverFormal(d, style, marked) == style = "formal"

\* lines 74-80: issue.get("sentence_id") is None when the key is missing,
\* and None is in no set of sentence ids
Suppressed(d, style, marked) ==
    /\ style = "formal"
    /\ HasKey(d, "sentence_id")
    /\ d["sentence_id"] \in marked

\* pass 3 body, lines 73-85: issue.get raises AttributeError on an item
\* that is no mapping; the item is skipped
GrammarItem(issue, style, marked) ==
    IF issue.t # "dict" THEN Raised
    ELSE IF Suppressed(issue.v, style, marked) THEN Ok(<< >>)
    ELSE Ok(<< issue.v >>)

RECURSIVE GrammarLoop(_, _, _, _, _)
GrammarLoop(issues, i, style, marked, acc) ==
    IF i > Len(issues) THEN acc
    ELSE LET r == GrammarItem(issues[i], style, marked)
         IN  IF r.raised
             THEN GrammarLoop(issues, AfterFailure(i, Len(issues)), style, marked, acc)
             ELSE GrammarLoop(issues, i + 1, style, marked,
                              IF r.value = << >> THEN acc
                              ELSE AppendIssue(acc, r.value[1]))

\* ErrorFusionEngine.fuse as a whole
fuse(errors, gissues, sents, style, conf) ==
    LET p1 == SpellLoop(errors, 1, style, conf, << >>)
        p2 == StyleLoop(sents, 1, style, [ issues |-> p1, marked |-> {} ])
    IN  GrammarLoop(gissues, 1, style, p2.marked, p2.issues)

----------------------------------------------------------------------------
(* spell_checker/rules.py *)

\* word.replace(".", "", 1): the first "." is taken out
RECURSIVE RemoveFirstDot(_)
RemoveFirstDot(word) ==
    IF word = << >> THEN << >>
    ELSE IF Head(word) = "." THEN Tail(word)
    ELSE << Head(word) >> \o RemoveFirstDot(Tail(word))

\* str.isdigit(): not empty and digits only
IsDigitStr(s) == s # << >> /\ \A i \in DOMAIN s : IsDigitChar(s[i])

\* str.isupper(): a cased character, and no lowercase one
IsUpperStr(s) ==
    /\ \E i \in DOMAIN s : IsUpperChar(s[i])
    /\ \A i \in DOMAIN s : ~ IsLowerChar(s[i])

is_numeric(word) == IsDigitStr(RemoveFirstDot(word))

is_all_caps(word) == IsUpperStr(word)

is_short(word) == Len(word) <= 2

\* URL_PATTERN.match(word) for (https?://\S+|www\.\S+|\S+@\S+\.\S+):
\* a match at the start of the word
is_url_or_email(word) ==
    LET NonSpaceAt(i) == i \in DOMAIN word /\ ~ IsSpaceChar(word[i])
        NonSpaceRun(a, b) == a <= b /\ \A i \in a..b : NonSpaceAt(i)
    IN  \/ StartsWith(word, <<"h","t","t","p",":","/","/">>) /\ NonSpaceAt(8)
        \/ StartsWith(word, <<"h","t","t","p","s",":","/","/">>) /\ NonSpaceAt(9)
        \/ StartsWith(word, <<"w","w","w",".">>) /\ NonSpaceAt(5)
        \/ \E i, j \in DOMAIN word :
              /\ word[i] = "@" /\ word[j] = "."
              /\ NonSpaceRun(1, i - 1)
              /\ NonSpaceRun(i + 1, j - 1)
              /\ NonSpaceAt(j + 1)

is_punctuation_only(word) == \A i \in DOMAIN word : ~ IsAlnumChar(word[i])

should_ignore(word) ==
    \/ is_numeric(word)
    \/ is_all_caps(word)
    \/ is_short(word)
    \/ is_url_or_email(word)
    \/ is_punctuation_only(word)

----------------------------------------------------------------------------
(* nlp/spell_normalizer.py *)

IRREGULAR_MAP ==
    { << <<"w","r","i","t","t","e","n">>, <<"w","r","i","t","e">> >>,
      << <<"w","r","o","t","e">>, <<"w","r","i","t","e">> >>,
      << <<"t","a","k","e","n">>, <<"t","a","k","e">> >>,
      << <<"g","i","v","e","n">>, <<"g","i","v","e">> >>,
      << <<"d","o","n","e">>, <<"d","o">> >>,
      << <<"g","o","n","e">>, <<"g","o">> >> }

\* word[:-k]
DropLast(word, k) == SubSeq(word, 1, Len(word) - k)

NounSuffixes ==
    { <<"t","i","o","n">>, <<"m","e","n","t">>, <<"n","e","s","s">>, <<"i","t","y">> }

normalize_word(word) ==
    { word }
    \cup { m[2] : m \in { x \in IRREGULAR_MAP : x[1] = word } }
    \cup ( IF EndsWith(word, <<"i","e","s">>) /\ Len(word) > 4
           THEN { DropLast(word, 3) \o <<"y">> } ELSE {} )
    \cup ( IF EndsWith(word, <<"s">>) /\ Len(word) > 3
           THEN { DropLast(word, 1) } ELSE {} )
    \cup ( IF EndsWith(word, <<"i","n","g">>) /\ Len(word) > 5
           THEN { DropLast(word, 3), DropLast(word, 3) \o <<"e">> } ELSE {} )
    \cup ( IF EndsWith(word, <<"e","d">>) /\ Len(word) > 4
           THEN { DropLast(word, 2) } ELSE {} )
    \cup { DropLast(word, Len(suffix)) :
             suffix \in { x \in NounSuffixes :
                            EndsWith(word, x) /\ Len(word) > Len(x) + 2 } }

----------------------------------------------------------------------------
(* spell_checker/service.py *)

\* The dictionary is read once from resources/english_words.txt (lines
\* 18-19), a list of lowercase words; these words stand for its content.
DICTIONARY ==
    { <<"c","a","t">>,
      <<"c","i","t","y">>,
      <<"m","a","k","e">>,
      <<"w","a","l","k">>,
      <<"w","r","i","t","e">>,
      <<"k","i","n","d">>,
      <<"t","h","e">>,
      <<"g","o">>,
      <<"h","e">>,
      <<"r","u","n">>,
      <<"t","h","i","n","k">>,
      <<"y","e","s","t","e","r","d","a","y">> }

\* \w of WORD_PATTERN
IsWordChar(c) == IsAlnumChar(c) \/ c = "_"

\* WORD_PATTERN.finditer(text) for \b\w+\b: the maximal runs of word
\* characters, left to right, each with its 0-based match.start()
RECURSIVE FindWords(_, _, _, _, _)
FindWords(txt, i, cur, start, acc) ==
    IF i > Len(txt)
    THEN IF cur = << >> THEN acc
         ELSE Append(acc, [ word |-> cur, start |-> start ])
    ELSE IF IsWordChar(txt[i])
         THEN FindWords(txt, i + 1, Append(cur, txt[i]),
                        IF cur = << >> THEN i - 1 ELSE start, acc)
         ELSE FindWords(txt, i + 1, << >>, 0,
                        IF cur = << >> THEN acc
                        ELSE Append(acc, [ word |-> cur, start |-> start ]))

SentenceEndChars == { ".", "!", "?" }

\* str.strip()
RECURSIVE Strip(_)
Strip(s) ==
    IF s = << >> THEN s
    ELSE IF IsSpaceChar(s[1]) THEN Strip(Tail(s))
    ELSE IF IsSpaceChar(s[Len(s)]) THEN Strip(SubSeq(s, 1, Len(s) - 1))
    ELSE s

\* extract_context(text, start_index), with 0-based indices
extract_context(txt, start_index) ==
    LET before == { k \in 0..(start_index - 1) : txt[k + 1] \in SentenceEndChars }
        after == { k \in start_index..(Len(txt) - 1) : txt[k + 1] \in SentenceEndChars }
        sentence_start ==
            IF before = {} THEN -1 ELSE CHOOSE k \in before : \A x \in before : x <= k
        sentence_end ==
            IF after = {} THEN Len(txt) ELSE CHOOSE k \in after : \A x \in after : k <= x
        last == IF sentence_end + 1 > Len(txt) THEN Len(txt) ELSE sentence_end + 1
    IN  Strip(Slice(txt, sentence_start + 1, last))

\* the mutant of IsValidWord: the normalized forms are not tried
IsValidWordNoNormalization(normalized_word) == normalized_word \in DICTIONARY

\* lines 89-98: the lowercased word, or one of its normalized forms, is in
\* the dictionary
IsValidWord(normalized_word) ==
    \/ normalized_word \in DICTIONARY
    \/ \E form \in normalize_word(normalized_word) : form \in DICTIONARY

\* the mutant of NextIssueId: the id is not advanced
NextIssueIdStuck(issue_id) == issue_id

\* issue_id += 1, line 120
NextIssueId(issue_id) == issue_id + 1

\* lines 104-117; "reason" (a message naming the word) and "suggestions"
\* (difflib's close matches) are read by no operation modelled here and
\* are left out of the mapping
SpellingIssue(txt, m, issue_id) ==
    [ issue_id |-> issue_id,
      issue_type |-> "spelling",
      source |-> "spell_checker",
      error_word |-> m.word,
      start_index |-> m.start,
      length |-> Len(m.word),
      end_index |-> m.start + Len(m.word),
      context |-> extract_context(txt, m.start) ]

\* the loop of check_spelling, lines 77-120
RECURSIVE CheckLoop(_, _, _, _, _)
CheckLoop(txt, matches, i, issue_id, issues) ==
    IF i > Len(matches) THEN issues
    ELSE LET original_word == matches[i].word
             normalized_word == Lower(original_word)
         IN  IF should_ignore(original_word)
             THEN CheckLoop(txt, matches, i + 1, issue_id, issues)
             ELSE IF IsValidWord(normalized_word)
             THEN CheckLoop(txt, matches, i + 1, issue_id, issues)
             ELSE CheckLoop(txt, matches, i + 1, NextIssueId(issue_id),
                            Append(issues, SpellingIssue(txt, matches[i], issue_id)))

check_spelling(txt) ==
    CheckLoop(txt, FindWords(txt, 1, << >>, 0, << >>), 1, 1, << >>)

----------------------------------------------------------------------------
(* context_analyzer/grammar_rules.py *)

\* An entry of pos_tags is a pair, PyPair(word, tag), whose word and tag are
\* Python values (a str for a well-formed entry), or some other value.
PyPair(word, tag) == [ t |-> "pair", word |-> word, tag |-> tag ]

TagNNS == PyStr(<<"N","N","S">>)
TagNNPS == PyStr(<<"N","N","P","S">>)
TagVBZ == PyStr(<<"V","B","Z">>)
TagVBP == PyStr(<<"V","B","P">>)
TagVBD == PyStr(<<"V","B","D">>)
TagVBG == PyStr(<<"V","B","G">>)
TagVBN == PyStr(<<"V","B","N">>)

\* `not x` for an optional str
Falsy(x) == x.t = "none" \/ (x.t = "str" /\ x.v = << >>)

\* `for word, tag in pos_tags` raises on an entry that is no pair
Unpacks(entry) == entry.t = "pair"

\* _get_suggestion(issue_type)
get_suggestion(issue_type) ==
    CASE issue_type = "subject_verb_agreement" ->
           "Ensure that the verb form matches the subject (singular subjects take singular verbs, plural subjects take plural verbs)."
      [] issue_type = "tense_mismatch" ->
           "Maintain consistent verb tense throughout the sentence. Check whether the time reference matches the verb form."
      [] issue_type = "missing_auxiliary" ->
           "Check whether an auxiliary verb (is, are, was, were, has, have, had) is required for correct sentence structure."
      [] OTHER -> "Review the sentence structure for grammatical accuracy."

\* _subject_verb_mismatch(subject, pos_tags): Ok(TRUE / FALSE) or Raised
RECURSIVE SubjectVerbLoop(_, _, _, _)
SubjectVerbLoop(subject, pos_tags, i, subject_is_plural) ==
    IF i > Len(pos_tags) THEN Ok(FALSE)
    ELSE IF ~ Unpacks(pos_tags[i]) THEN Raised
    ELSE LET word == pos_tags[i].word
             tag == pos_tags[i].tag
         IN  IF word = subject
             THEN SubjectVerbLoop(subject, pos_tags, i + 1, tag \in { TagNNS, TagNNPS })
             ELSE IF tag = TagVBZ /\ subject_is_plural THEN Ok(TRUE)
             ELSE IF tag = TagVBP /\ ~ subject_is_plural THEN Ok(TRUE)
             ELSE SubjectVerbLoop(subject, pos_tags, i + 1, subject_is_plural)

subject_verb_mismatch(subject, pos_tags) ==
    SubjectVerbLoop(subject, pos_tags, 1, FALSE)

\* the mutant of TenseRuleHit: only VBP counts as a present-tense form
TenseRuleHitWithoutVBZ(tense, tag) ==
    \/ tense = "past" /\ tag \in { TagVBP }
    \/ tense = "future" /\ tag = TagVBD

\* the test of _tense_mismatch, lines 98-101
TenseRuleHit(tense, tag) ==
    \/ tense = "past" /\ tag \in { TagVBZ, TagVBP }
    \/ tense = "future" /\ tag = TagVBD

\* _tense_mismatch(tense, pos_tags)
RECURSIVE TenseLoop(_, _, _)
TenseLoop(tense, pos_tags, i) ==
    IF i > Len(pos_tags) THEN Ok(FALSE)
    ELSE IF ~ Unpacks(pos_tags[i]) THEN Raised
    ELSE IF TenseRuleHit(tense, pos_tags[i].tag) THEN Ok(TRUE)
    ELSE TenseLoop(tense, pos_tags, i + 1)

tense_mismatch(tense, pos_tags) == TenseLoop(tense, pos_tags, 1)

Auxiliaries ==
    { <<"i","s">>, <<"a","r","e">>, <<"w","a","s">>, <<"w","e","r","e">>,
      <<"h","a","s">>, <<"h","a","v","e">>, <<"h","a","d">> }

\* verbs = [tag for _, tag in pos_tags if tag.startswith("VB")]:
\* raises on an entry that is no pair and on a tag that is no str
RECURSIVE VerbTags(_, _)
VerbTags(pos_tags, i) ==
    IF i > Len(pos_tags) THEN Ok(<< >>)
    ELSE IF ~ Unpacks(pos_tags[i]) THEN Raised
    ELSE IF pos_tags[i].tag.t # "str" THEN Raised
    ELSE LET rest == VerbTags(pos_tags, i + 1)
         IN  IF rest.raised THEN Raised
             ELSE IF StartsWith(pos_tags[i].tag.v, <<"V","B">>)
                  THEN Ok(<< pos_tags[i].tag >> \o rest.value)
                  ELSE rest

\* the loop over the words, lines 110-113: word.lower() raises on a word
\* that is no str
RECURSIVE AuxiliaryLoop(_, _)
AuxiliaryLoop(pos_tags, i) ==
    IF i > Len(pos_tags) THEN Ok(TRUE)
    ELSE IF ~ Unpacks(pos_tags[i]) THEN Raised
    ELSE IF pos_tags[i].word.t # "str" THEN Raised
    ELSE IF Lower(pos_tags[i].word.v) \in Auxiliaries THEN Ok(FALSE)
    ELSE AuxiliaryLoop(pos_tags, i + 1)

\* _missing_auxiliary(pos_tags)
missing_auxiliary(pos_tags) ==
    LET verbs == VerbTags(pos_tags, 1)
    IN  IF verbs.raised THEN Raised
        ELSE IF TagVBG \in Range(verbs.value) \/ TagVBN \in Range(verbs.value)
        THEN AuxiliaryLoop(pos_tags, 1)
        ELSE Ok(FALSE)

GrammarMessage(issue_type) ==
    CASE issue_type = "subject_verb_agreement" -> "Possible subject-verb agreement error."
      [] issue_type = "tense_mismatch" -> "Possible tense inconsistency in sentence."
      [] issue_type = "missing_auxiliary" -> "Possible missing auxiliary verb."

GrammarIssue(issue_type, sentence_id) ==
    [ type |-> issue_type,
      message |-> GrammarMessage(issue_type),
      suggestion |-> get_suggestion(issue_type),
      sentence_id |-> sentence_id ]

\* GrammarRuleChecker.check(sentence_data): Ok(issues), or Raised when a
\* rule raises (nothing in check catches it)
check(data) ==
    LET subject == data.subject
        verb == data.main_verb
        tense == data.tense
        pos_tags == data.pos_tags
        sentence_id == data.sentence_id
    IN  IF Falsy(subject) \/ Falsy(verb) THEN Ok(<< >>)
        ELSE
        LET r1 == subject_verb_mismatch(subject, pos_tags)
        IN  IF r1.raised THEN Raised
            ELSE
            LET issues1 == IF r1.value
                           THEN << GrammarIssue("subject_verb_agreement", sentence_id) >>
                           ELSE << >>
                r2 == tense_mismatch(tense, pos_tags)
            IN  IF r2.raised THEN Raised
                ELSE
                LET issues2 == IF r2.value
                               THEN Append(issues1, GrammarIssue("tense_mismatch", sentence_id))
                               ELSE issues1
                    r3 == missing_auxiliary(pos_tags)
                IN  IF r3.raised THEN Raised
                    ELSE IF r3.value
                         THEN Ok(Append(issues2, GrammarIssue("missing_auxiliary", sentence_id)))
                         ELSE Ok(issues2)

----------------------------------------------------------------------------
(* Inputs of a fuse call *)

\* the largest number of list items (spelling errors, sentences and grammar
\* issues together) handed to one fuse call
MaxItems == 3

WritingStyles == { "formal", "neutral", "casual" }

Teh == <<"t","e","h">>
Wrld == <<"w","r","l","d">>

\* a spelling error as check_spelling builds it, one keyed by "word",
\* and two items that are no mapping: None (dict(None) raises) and ""
\* (dict("") is {})
SpellErrorPool ==
    { PyDict([ issue_id |-> 1, issue_type |-> "spelling", error_word |-> Teh,
               start_index |-> 0, end_index |-> 3 ]),
      PyDict([ word |-> Wrld ]),
      PyNone,
      PyStr(<< >>) }

\* "I don't go", "I dont think thats correct, lol.", "Its dont", "we go",
\* and a sentence that is not a str
SentencePool ==
    { PyStr(<<"I"," ","d","o","n","'","t"," ","g","o">>),
      PyStr(<<"I"," ","d","o","n","t"," ","t","h","i","n","k"," ","t","h","a","t","s"," ","c","o","r","r","e","c","t",","," ","l","o","l",".">>),
      PyStr(<<"I","t","s"," ","d","o","n","t">>),
      PyStr(<<"w","e"," ","g","o">>),
      PyNone }

\* grammar issues of sentence 0, of sentence 1 and without a sentence_id,
\* and an item that is no mapping
GrammarIssuePool ==
    { PyDict([ type |-> "tense_mismatch",
               message |-> "Possible tense inconsistency in sentence.",
               sentence_id |-> 0 ]),
      PyDict([ type |-> "subject_verb_agreement",
               message |-> "Possible subject-verb agreement error.",
               sentence_id |-> 1 ]),
      PyDict([ type |-> "missing_auxiliary",
               message |-> "Possible missing auxiliary verb." ]),
      PyInt(7) }

\* confidence maps: no entry, or an entry for "teh" just below or at the cutoff
ConfidenceMaps ==
    { EmptyDict } \cup { [ w \in { Teh } |-> c ] : c \in { ConfidenceCutoff - 1, ConfidenceCutoff } }

NoSentenceData == PyNone

\* no predict_text_quality call in progress
NoPipeline ==
    /\ tagger = "tags"
    /\ spell_context_model = PyNone
    /\ style_classifier = PyNone
    /\ model = PyNone
    /\ sentence_data_list = << >>
    /\ response = PyNone
NoCheckResult == [ raised |-> FALSE, value |-> << >> ]

\* no feature mapping built, nothing handed to a classifier
NoFeatures ==
    /\ features = << >>
    /\ feature_vector = << >>

\* main.py lines 38-41: the engine objects, each with its instance
\* attributes; none of the four classes defines any
Engines ==
    [ sentence_parser |-> EmptyDict,
      grammar_checker |-> EmptyDict,
      fusion_engine |-> EmptyDict,
      spell_feature_builder |-> EmptyDict ]

\* the shared objects as loaded at import, and no call in flight
NoCalls ==
    /\ dictionary = DICTIONARY
    /\ engines = Engines
    /\ calls = << >>

InitFuse ==
    /\ pc = "fuse_spell"
    /\ NoFeatures
    /\ NoCalls
    /\ text = << >>
    /\ \E a \in 0..MaxItems : \E b \in 0..(MaxItems - a) : \E c \in 0..(MaxItems - a - b) :
          /\ spell_errors \in [1..a -> SpellErrorPool]
          /\ sentences \in [1..b -> SentencePool]
          /\ grammar_issues \in [1..c -> GrammarIssuePool]
    /\ writing_style \in WritingStyles
    /\ ml_spell_confidences \in ConfidenceMaps
    /\ final_issues = << >>
    /\ sentences_with_contractions = {}
    /\ sentence_data = NoSentenceData
    /\ check_result = NoCheckResult
    /\ NoPipeline

\* fuse, pass 1 (lines 36-50)
FuseSpellPass ==
    /\ pc = "fuse_spell"
    /\ final_issues' = SpellLoop(spell_errors, 1, writing_style, ml_spell_confidences, << >>)
    /\ sentences_with_contractions' = {}
    /\ spell_errors' = [ k \in DOMAIN spell_errors |->
                           ErrorAfterProcessing(spell_errors[k], writing_style,
                                                ml_spell_confidences) ]
    /\ pc' = "fuse_style"
    /\ UNCHANGED << feature_vars, shared_vars, text, grammar_issues, sentences, writing_style,
                    ml_spell_confidences, sentence_data, check_result, pipeline_vars >>

\* a second pass that is handed the classifier's style, not the refined one
FuseStylePassUnrefined ==
    /\ pc = "fuse_style"
    /\ LET unrefined == IF style_classifier.t = "model" /\ ~ style_classifier.raises
                        THEN style_classifier.answer
                        ELSE "neutral"
           r == StyleLoop(sentences, 1, unrefined,
                          [ issues |-> final_issues, marked |-> sentences_with_contractions ])
       IN  /\ final_issues' = r.issues
           /\ sentences_with_contractions' = r.marked
    /\ pc' = "fuse_grammar"
    /\ UNCHANGED << feature_vars, shared_vars, text, spell_errors, grammar_issues, sentences, writing_style,
                    ml_spell_confidences, sentence_data, check_result, pipeline_vars >>

\* fuse, pass 2 (lines 55-67)
FuseStylePass ==
    /\ pc = "fuse_style"
    /\ LET r == StyleLoop(sentences, 1, writing_style,
                          [ issues |-> final_issues, marked |-> sentences_with_contractions ])
       IN  /\ final_issues' = r.issues
           /\ sentences_with_contractions' = r.marked
    /\ pc' = "fuse_grammar"
    /\ UNCHANGED << feature_vars, shared_vars, text, spell_errors, grammar_issues, sentences, writing_style,
                    ml_spell_confidences, sentence_data, check_result, pipeline_vars >>

\* fuse, pass 3 and the return (lines 72-87)
FuseGrammarPass ==
    /\ pc = "fuse_grammar"
    /\ final_issues' = GrammarLoop(grammar_issues, 1, writing_style,
                                   sentences_with_contractions, final_issues)
    /\ pc' = "fuse_done"
    /\ UNCHANGED << feature_vars, shared_vars, text, spell_errors, grammar_issues, sentences, writing_style,
                    ml_spell_confidences, sentences_with_contractions,
                    sentence_data, check_result, pipeline_vars >>

NextFuse == FuseSpellPass \/ FuseStylePass \/ FuseGrammarPass

SpecFuse == InitFuse /\ [][NextFuse]_vars

----------------------------------------------------------------------------
(* A check_spelling call whose result is handed to fuse *)

\* the largest number of pieces a text is put together from
MaxPieces == 3

\* words, word parts and separators that texts are put together from
TextPieces ==
    { <<"c","a","t">>,
      <<"s">>,
      <<"m","a","k","i","n","g">>,
      <<"w","r","o","t","e">>,
      <<"x","q","z">>,
      <<"T","e","h">>,
      <<"A","B","1">>,
      <<"1","2">>,
      <<"_">>,
      <<" ">>,
      <<".">> }

RECURSIVE Concat(_)
Concat(ps) == IF ps = << >> THEN << >> ELSE Head(ps) \o Concat(Tail(ps))

Texts == { Concat(ps) : ps \in SeqsUpTo(TextPieces, MaxPieces) }

\* no confidence at all, or a low one for the word "Teh"
SpellingConfidenceMaps ==
    { EmptyDict, [ x \in { <<"T","e","h">> } |-> ConfidenceCutoff - 1 ] }

InitSpelling ==
    /\ pc = "check_spelling"
    /\ NoFeatures
    /\ NoCalls
    /\ text \in Texts
    /\ spell_errors = << >>
    /\ grammar_issues = << >>
    /\ sentences = << >>
    /\ writing_style = "neutral"
    /\ ml_spell_confidences \in SpellingConfidenceMaps
    /\ final_issues = << >>
    /\ sentences_with_contractions = {}
    /\ sentence_data = NoSentenceData
    /\ check_result = NoCheckResult
    /\ NoPipeline

\* check_spelling(text); its list becomes the spell_errors argument of fuse
CheckSpelling ==
    /\ pc = "check_spelling"
    /\ spell_errors' = PyDicts(check_spelling(text))
    /\ pc' = "fuse_spell"
    /\ UNCHANGED << feature_vars, shared_vars, text, grammar_issues, sentences, writing_style,
                    ml_spell_confidences, final_issues,
                    sentences_with_contractions, sentence_data, check_result, pipeline_vars >>

NextSpelling == CheckSpelling \/ FuseSpellPass \/ FuseStylePass \/ FuseGrammarPass

SpecSpelling == InitSpelling /\ [][NextSpelling]_vars

----------------------------------------------------------------------------
(* A GrammarRuleChecker.check call *)

\* the largest number of entries of pos_tags
MaxTags == 3

He == PyStr(<<"h","e">>)
Dogs == PyStr(<<"d","o","g","s">>)
Runs == PyStr(<<"r","u","n","s">>)

\* tagged tokens: "he"/PRP, "dogs"/NNS, "runs"/VBZ, "run"/VBP, "Was"/VBD,
\* "running"/VBG, an entry that is no pair, and a pair whose tag is None
TaggedTokenPool ==
    { PyPair(He, PyStr(<<"P","R","P">>)),
      PyPair(Dogs, TagNNS),
      PyPair(Runs, TagVBZ),
      PyPair(PyStr(<<"r","u","n">>), TagVBP),
      PyPair(PyStr(<<"W","a","s">>), TagVBD),
      PyPair(PyStr(<<"r","u","n","n","i","n","g">>), TagVBG),
      PyInt(3),
      PyPair(PyStr(<<"x">>), PyNone) }

Tenses == { "past", "present", "future" }

SentenceRecords ==
    [ sentence_id : { 0 },
      subject : { PyNone, PyStr(<< >>), He, Dogs },
      main_verb : { PyNone, Runs },
      tense : Tenses,
      pos_tags : SeqsUpTo(TaggedTokenPool, MaxTags) ]

InitGrammar ==
    /\ pc = "check"
    /\ NoFeatures
    /\ NoCalls
    /\ text = << >>
    /\ spell_errors = << >>
    /\ grammar_issues = << >>
    /\ sentences = << >>
    /\ writing_style = "neutral"
    /\ ml_spell_confidences = EmptyDict
    /\ final_issues = << >>
    /\ sentences_with_contractions = {}
    /\ sentence_data \in SentenceRecords
    /\ check_result = NoCheckResult
    /\ NoPipeline

\* grammar_checker.check(sentence_data): returns a list or raises
GrammarCheck ==
    /\ pc = "check"
    /\ check_result' = check(sentence_data)
    /\ pc' = "check_done"
    /\ UNCHANGED << feature_vars, shared_vars, text, spell_errors, grammar_issues, sentences, writing_style,
                    ml_spell_confidences, final_issues,
                    sentences_with_contractions, sentence_data, pipeline_vars >>

NextGrammar == GrammarCheck

SpecGrammar == InitGrammar /\ [][NextGrammar]_vars

----------------------------------------------------------------------------
(* context_analyzer/sentence_parser.py and context_analyzer/pos_tagger.py *)

\* the typographic quotes U+2019, U+2018, U+201C, U+201D, each one
\* character of a text
RightSingleQuote == "U+2019"
LeftSingleQuote == "U+2018"
LeftDoubleQuote == "U+201C"
RightDoubleQuote == "U+201D"

TagVB == PyStr(<<"V","B">>)
TagNN == PyStr(<<"N","N">>)
TagNNP == PyStr(<<"N","N","P">>)
TagPRP == PyStr(<<"P","R","P">>)

VERB_TAGS == { TagVB, TagVBD, TagVBG, TagVBN, TagVBP, TagVBZ }
NOUN_TAGS == { TagNN, TagNNS, TagNNP, TagNNPS, TagPRP }

PAST_MARKERS == { <<"y","e","s","t","e","r","d","a","y">>, <<"a","g","o">>, <<"l","a","s","t">> }
FUTURE_MARKERS == { <<"t","o","m","o","r","r","o","w">>, <<"n","e","x","t">>, <<"w","i","l","l">> }

\* _split_sentences: re.split(r'[.!?]+', text), each part stripped, the
\* empty ones dropped
RECURSIVE SplitSentencesFrom(_, _, _, _)
SplitSentencesFrom(txt, i, cur, acc) ==
    LET s == Strip(cur)
        kept == IF s = << >> THEN acc ELSE Append(acc, s)
    IN  IF i > Len(txt) THEN kept
        ELSE IF txt[i] \in SentenceEndChars
             THEN SplitSentencesFrom(txt, i + 1, << >>, kept)
             ELSE SplitSentencesFrom(txt, i + 1, Append(cur, txt[i]), acc)

split_sentences(txt) == SplitSentencesFrom(txt, 1, << >>, << >>)

\* POSTagger.tokenize and POSTagger.pos_tag hand the sentence to NLTK, which
\* is no part of this repository. A call either raises (LookupError when
\* the punkt or tagger data is missing, as decided by `tagger`) or returns
\* tokens and (token, tag) pairs. The tokens returned here are the
\* whitespace-separated words and the tags come from this lexicon, NN for
\* a word it does not list.
Taggers == { "tags", "raises" }

Lexicon ==
    { << <<"H","e">>, TagPRP >>,
      << <<"I">>, TagPRP >>,
      << <<"r","u","n","s">>, TagVBZ >>,
      << <<"t","h","i","n","k">>, TagVBP >>,
      << <<"d","o","n",RightSingleQuote,"t">>, TagVBP >>,
      << <<"T","e","h">>, TagNNP >> }

tokenize(sentence) == Split(sentence)

TagOf(token) ==
    IF \E e \in Lexicon : e[1] = token
    THEN (CHOOSE e \in Lexicon : e[1] = token)[2]
    ELSE TagNN

pos_tag(tokens) ==
    [ i \in DOMAIN tokens |-> PyPair(PyStr(tokens[i]), TagOf(tokens[i])) ]

\* the word of the first entry whose tag is in `tags`, or None
FirstTagged(pos_tags, tags) ==
    LET hits == { i \in DOMAIN pos_tags : pos_tags[i].tag \in tags }
    IN  IF hits = {} THEN PyNone
        ELSE pos_tags[CHOOSE i \in hits : \A j \in hits : i <= j].word

extract_subject(pos_tags) == FirstTagged(pos_tags, NOUN_TAGS)

extract_main_verb(pos_tags) == FirstTagged(pos_tags, VERB_TAGS)

detect_tense(pos_tags, tokens) ==
    LET token_set == { Lower(tokens[i]) : i \in DOMAIN tokens }
    IN  IF <<"w","i","l","l">> \in token_set \/ token_set \cap FUTURE_MARKERS # {}
        THEN "future"
        ELSE IF \E i \in DOMAIN pos_tags : pos_tags[i].tag = TagVBD THEN "past"
        ELSE IF token_set \cap PAST_MARKERS # {} THEN "past"
        ELSE "present"

\* the mapping parse appends for sentence idx, lines 25-40
ParsedSentence(idx, sentence) ==
    LET tokens == tokenize(sentence)
        pos_tags == pos_tag(tokens)
    IN  [ sentence_id |-> idx,
          text |-> sentence,
          tokens |-> tokens,
          pos_tags |-> pos_tags,
          subject |-> extract_subject(pos_tags),
          main_verb |-> extract_main_verb(pos_tags),
          tense |-> detect_tense(pos_tags, tokens) ]

\* a parser that numbers the sentences from 1
parseFromOne(txt) ==
    LET sents == split_sentences(txt)
    IN  [ k \in DOMAIN sents |-> ParsedSentence(k, sents[k]) ]

\* SentenceParser.parse(text)["sentences"], when the tagger returns
parse(txt) ==
    LET sents == split_sentences(txt)
    IN  [ k \in DOMAIN sents |-> ParsedSentence(k - 1, sents[k]) ]

\* parse raises when a sentence is handed to a tagger that raises
ParseRaises(txt, tg) == tg = "raises" /\ split_sentences(txt) # << >>

----------------------------------------------------------------------------
(* main.py *)

MIN_WORD_COUNT == 3
MIN_CHAR_COUNT == 20

\* Confidence scores are percentages in thousandths (60.0 is 60000); the
\* reported confidence, round(score, 2), is in hundredths.
CONFIDENCE_THRESHOLD == 60000

\* round(confidence_score, 2) for a score that is no tie
Round2(score) == (score + 5) \div 10

\* str.isnumeric(): not empty and numeric characters only
IsNumericStr(s) == s # << >> /\ \A i \in DOMAIN s : IsDigitChar(s[i])

AlphaCount(s) == Cardinality({ i \in DOMAIN s : IsAlphaChar(s[i]) })

validate_input_text(txt) ==
    LET cleaned_text == Strip(txt)
        word_count == Len(Split(cleaned_text))
        Invalid(message) == [ is_valid |-> FALSE, message |-> message ]
    IN  IF txt = << >> \/ cleaned_text = << >>
        THEN Invalid("Input text is empty.")
        ELSE IF Len(cleaned_text) < MIN_CHAR_COUNT
        THEN Invalid("Text is too short for reliable analysis.")
        ELSE IF word_count < MIN_WORD_COUNT
        THEN Invalid("Text does not contain enough words.")
        ELSE IF IsNumericStr(cleaned_text)
        THEN Invalid("Text contains only numbers.")
        ELSE IF 2 * AlphaCount(cleaned_text) < Len(cleaned_text)
        THEN Invalid("Text contains too many non-alphabetic characters.")
        ELSE [ is_valid |-> TRUE, message |-> "Valid input." ]

\* A classifier handed to predict_text_quality is None, or an object whose
\* call raises, or one whose call returns `answer`.
NoModel == PyNone
FailingModel == [ t |-> "model", raises |-> TRUE ]
Answering(answer) == [ t |-> "model", raises |-> FALSE, answer |-> answer ]

\* `if spell_context_model` / `if style_classifier`
Truthy(m) == m.t # "none"

\* lines 156-186: the confidence map, one entry per error whose features
\* and probability were obtained; a failing call leaves the word out
RECURSIVE ConfidenceLoop(_, _, _, _)
ConfidenceLoop(errors, i, clf, conf) ==
    IF i > Len(errors) THEN conf
    ELSE LET word == SpellWord(errors[i].v)
         IN  IF NoWord(word) THEN ConfidenceLoop(errors, i + 1, clf, conf)
             ELSE IF clf.raises THEN ConfidenceLoop(errors, i + 1, clf, conf)
             ELSE ConfidenceLoop(errors, i + 1, clf, DictSet(conf, word.v, clf.answer))

\* lines 154-186
spell_confidences(errors, clf) ==
    IF Truthy(clf) /\ errors # << >>
    THEN ConfidenceLoop(errors, 1, clf, EmptyDict)
    ELSE EmptyDict

\* lines 191-196: the issues of every sentence whose check returns
RECURSIVE GrammarRulesLoop(_, _, _)
GrammarRulesLoop(data_list, i, issues) ==
    IF i > Len(data_list) THEN issues
    ELSE LET r == check(data_list[i])
         IN  IF r.raised THEN GrammarRulesLoop(data_list, i + 1, issues)
             ELSE GrammarRulesLoop(data_list, i + 1,
                      issues \o [ k \in DOMAIN r.value |-> PyDict(r.value[k]) ])

\* lines 201-206
predict_style(clf) ==
    IF ~ Truthy(clf) THEN "neutral"
    ELSE IF clf.raises THEN "neutral"
    ELSE clf.answer

\* a refinement that leaves typographic quotes as they are
KeepQuotes(txt) == txt

\* lines 213-218
NormalizeQuotes(txt) ==
    [ i \in DOMAIN txt |->
        IF txt[i] \in { RightSingleQuote, LeftSingleQuote } THEN "'"
        ELSE IF txt[i] \in { LeftDoubleQuote, RightDoubleQuote } THEN "\""
        ELSE txt[i] ]

\* lines 223-228
RefinementContractions ==
    { <<"d","o","n","'","t">>, <<"c","a","n","'","t">>, <<"w","o","n","'","t">>, <<"i","s","n","'","t">>, <<"a","r","e","n","'","t">>, <<"w","a","s","n","'","t">>,
      <<"w","e","r","e","n","'","t">>, <<"h","a","s","n","'","t">>, <<"h","a","v","e","n","'","t">>, <<"h","a","d","n","'","t">>,
      <<"i","'","m">>, <<"y","o","u","'","r","e">>, <<"w","e","'","r","e">>, <<"t","h","e","y","'","r","e">>,
      <<"i","t","'","s">>, <<"t","h","a","t","'","s">>, <<"t","h","e","r","e","'","s">>, <<"w","h","a","t","'","s">> }

MinContractions == 2
MinWords == 8

\* lines 211-235
refine_style(style, txt) ==
    IF style = "formal"
    THEN LET words == Split(NormalizeQuotes(txt))
             word_count == Len(words)
             contraction_count ==
                 Cardinality({ i \in DOMAIN words : Lower(words[i]) \in RefinementContractions })
         IN  IF contraction_count >= MinContractions /\ word_count >= MinWords
             THEN "casual"
             ELSE style
    ELSE style

\* lines 240-243
sentences_text(data_list) == [ k \in DOMAIN data_list |-> PyStr(data_list[k].text) ]

ErrorResponse(message) == PyDict([ error |-> TRUE, message |-> message ])

\* lines 270-298
ResultResponse(answer, style, issues) ==
    PyDict([ error |-> FALSE,
             predicted_grade |-> answer.grade,
             confidence |-> Round2(answer.score),
             is_confident |-> answer.score >= CONFIDENCE_THRESHOLD,
             writing_style |-> style,
             language_issues |-> issues ])

NoResponse == PyNone

----------------------------------------------------------------------------
(* A predict_text_quality call *)

\* the largest number of phrases a text is put together from
MaxPhrases == 2

\* "He runs yesterday. ", "I don't think so " with a typographic
\* apostrophe, and "Teh cat dont runs yesterday. "
Phrases ==
    { <<"H","e"," ","r","u","n","s"," ","y","e","s","t","e","r","d","a","y","."," ">>,
      <<"I"," ","d","o","n",RightSingleQuote,"t"," ","t","h","i","n","k"," ","s","o"," ">>,
      <<"T","e","h"," ","c","a","t"," ","d","o","n","t"," ","r","u","n","s"," ","y","e","s","t","e","r","d","a","y","."," ">> }

\* "I can't think it's so ", with typographic apostrophes: two
\* contractions in five words
ShortCasual ==
    <<"I"," ","c","a","n",RightSingleQuote,"t"," ","t","h","i","n","k"," ","i","t",RightSingleQuote,"s"," ","s","o"," ">>

\* "Teh cat dont runs yesterday. I can't think it's so ": a sentence with
\* an apostrophe-less contraction, then two contractions; ten words
LongCasual ==
    <<"T","e","h"," ","c","a","t"," ","d","o","n","t"," ","r","u","n","s"," ","y","e","s","t","e","r","d","a","y","."," ">>
      \o ShortCasual

PipelineTexts ==
    { Concat(ps) : ps \in SeqsUpTo(Phrases, MaxPhrases) }
        \cup { ShortCasual, LongCasual }

\* the spell-confidence classifier: absent, failing, or answering with a
\* probability just below or at the cutoff of fuse
SpellContextModels ==
    { NoModel, FailingModel } \cup
    { Answering(p) : p \in { ConfidenceCutoff - 1, ConfidenceCutoff } }

StyleClassifiers ==
    { NoModel, FailingModel } \cup { Answering(s) : s \in WritingStyles }

\* the quality-grade classifier: failing, or answering with a grade and a
\* score of 59.996 or 60.0
GradeModels ==
    { FailingModel } \cup
    { Answering([ grade |-> "A", score |-> s ]) :
        s \in { CONFIDENCE_THRESHOLD - 4, CONFIDENCE_THRESHOLD } }

InitPipeline ==
    /\ pc = "validate"
    /\ NoFeatures
    /\ NoCalls
    /\ text \in PipelineTexts
    /\ tagger \in Taggers
    /\ spell_context_model \in SpellContextModels
    /\ style_classifier \in StyleClassifiers
    /\ model \in GradeModels
    /\ spell_errors = << >>
    /\ grammar_issues = << >>
    /\ sentences = << >>
    /\ writing_style = "neutral"
    /\ ml_spell_confidences = EmptyDict
    /\ final_issues = << >>
    /\ sentences_with_contractions = {}
    /\ sentence_data = NoSentenceData
    /\ check_result = NoCheckResult
    /\ sentence_data_list = << >>
    /\ response = NoResponse

\* lines 125-138: an invalid text is answered with the error response;
\* language_issues, the list fuse later fills, is final_issues here
Validate ==
    /\ pc = "validate"
    /\ LET validation == validate_input_text(text)
       IN  IF ~ validation.is_valid
           THEN /\ response' = ErrorResponse(validation.message)
                /\ pc' = "returned"
           ELSE /\ response' = response
                /\ pc' = "spell_checking"
    /\ final_issues' = << >>
    /\ writing_style' = "neutral"
    /\ ml_spell_confidences' = EmptyDict
    /\ UNCHANGED << feature_vars, shared_vars, text, spell_errors, grammar_issues, sentences,
                    sentences_with_contractions, sentence_data, check_result,
                    tagger, spell_context_model, style_classifier, model,
                    sentence_data_list >>

\* line 143, outside every try
SpellChecking ==
    /\ pc = "spell_checking"
    /\ spell_errors' = PyDicts(check_spelling(text))
    /\ pc' = "sentence_context"
    /\ UNCHANGED << feature_vars, shared_vars, text, grammar_issues, sentences, writing_style,
                    ml_spell_confidences, final_issues,
                    sentences_with_contractions, sentence_data, check_result,
                    pipeline_vars >>

\* lines 148-149, outside every try: an exception of the tagger leaves
\* predict_text_quality
SentenceContext ==
    /\ pc = "sentence_context"
    /\ IF ParseRaises(text, tagger)
       THEN /\ pc' = "raised"
            /\ sentence_data_list' = sentence_data_list
       ELSE /\ pc' = "spell_confidence"
            /\ sentence_data_list' = parse(text)
    /\ UNCHANGED << feature_vars, shared_vars, text, spell_errors, grammar_issues, sentences, writing_style,
                    ml_spell_confidences, final_issues,
                    sentences_with_contractions, sentence_data, check_result,
                    tagger, spell_context_model, style_classifier, model,
                    response >>

\* lines 154-186
SpellConfidence ==
    /\ pc = "spell_confidence"
    /\ ml_spell_confidences' = spell_confidences(spell_errors, spell_context_model)
    /\ pc' = "grammar_rules"
    /\ UNCHANGED << feature_vars, shared_vars, text, spell_errors, grammar_issues, sentences, writing_style,
                    final_issues, sentences_with_contractions, sentence_data,
                    check_result, pipeline_vars >>

\* lines 191-196
GrammarRules ==
    /\ pc = "grammar_rules"
    /\ grammar_issues' = GrammarRulesLoop(sentence_data_list, 1, << >>)
    /\ pc' = "writing_style"
    /\ UNCHANGED << feature_vars, shared_vars, text, spell_errors, sentences, writing_style,
                    ml_spell_confidences, final_issues,
                    sentences_with_contractions, sentence_data, check_result,
                    pipeline_vars >>

\* lines 201-206
WritingStyle ==
    /\ pc = "writing_style"
    /\ writing_style' = predict_style(style_classifier)
    /\ pc' = "hybrid_refinement"
    /\ UNCHANGED << feature_vars, shared_vars, text, spell_errors, grammar_issues, sentences,
                    ml_spell_confidences, final_issues,
                    sentences_with_contractions, sentence_data, check_result,
                    pipeline_vars >>

\* lines 211-235
HybridRefinement ==
    /\ pc = "hybrid_refinement"
    /\ writing_style' = refine_style(writing_style, text)
    /\ pc' = "sentences_text"
    /\ UNCHANGED << feature_vars, shared_vars, text, spell_errors, grammar_issues, sentences,
                    ml_spell_confidences, final_issues,
                    sentences_with_contractions, sentence_data, check_result,
                    pipeline_vars >>

\* lines 240-255: the sentence texts, and the call of fuse, whose three
\* passes follow; fuse raises for no list arguments, so the handler of
\* lines 256-258 is never entered
SentencesText ==
    /\ pc = "sentences_text"
    /\ sentences' = sentences_text(sentence_data_list)
    /\ pc' = "fuse_spell"
    /\ UNCHANGED << feature_vars, shared_vars, text, spell_errors, grammar_issues, writing_style,
                    ml_spell_confidences, final_issues,
                    sentences_with_contractions, sentence_data, check_result,
                    pipeline_vars >>

\* lines 263-298: the grade, or the error response when the classifier fails
\* a prediction step without the try of lines 263-286: the classifier's
\* failure leaves the call
MLPredictionPropagates ==
    /\ pc = "fuse_done"
    /\ response' = IF model.raises
                   THEN response
                   ELSE ResultResponse(model.answer, writing_style, final_issues)
    /\ pc' = IF model.raises THEN "raised" ELSE "returned"
    /\ UNCHANGED << feature_vars, shared_vars, text, spell_errors, grammar_issues, sentences, writing_style,
                    ml_spell_confidences, final_issues,
                    sentences_with_contractions, sentence_data, check_result,
                    tagger, spell_context_model, style_classifier, model,
                    sentence_data_list >>

MLPrediction ==
    /\ pc = "fuse_done"
    /\ response' = IF model.raises
                   THEN ErrorResponse("Prediction engine failed.")
                   ELSE ResultResponse(model.answer, writing_style, final_issues)
    /\ pc' = "returned"
    /\ UNCHANGED << feature_vars, shared_vars, text, spell_errors, grammar_issues, sentences, writing_style,
                    ml_spell_confidences, final_issues,
                    sentences_with_contractions, sentence_data, check_result,
                    tagger, spell_context_model, style_classifier, model,
                    sentence_data_list >>

NextPipeline ==
    \/ Validate
    \/ SpellChecking
    \/ SentenceContext
    \/ SpellConfidence
    \/ GrammarRules
    \/ WritingStyle
    \/ HybridRefinement
    \/ SentencesText
    \/ FuseSpellPass
    \/ FuseStylePass
    \/ FuseGrammarPass
    \/ MLPrediction

SpecPipeline == InitPipeline /\ [][NextPipeline]_vars

----------------------------------------------------------------------------
(* The validation step of predict_text_quality on its own *)

\* the largest number of pieces a text to validate is put together from
MaxValidationPieces == 5

\* ten digits, ten letters, a blank, and a short mixed word
ValidationPieces ==
    { <<"1","2","3","4","5","6","7","8","9","0">>,
      <<"a","b","c","d","e","f","g","h","i","j">>,
      <<" ">>,
      <<"a","1">> }

ValidationTexts == { Concat(ps) : ps \in SeqsUpTo(ValidationPieces, MaxValidationPieces) }

InitValidation ==
    /\ pc = "validate"
    /\ NoFeatures
    /\ NoCalls
    /\ text \in ValidationTexts
    /\ tagger = "tags"
    /\ spell_context_model = NoModel
    /\ style_classifier = NoModel
    /\ model = FailingModel
    /\ spell_errors = << >>
    /\ grammar_issues = << >>
    /\ sentences = << >>
    /\ writing_style = "neutral"
    /\ ml_spell_confidences = EmptyDict
    /\ final_issues = << >>
    /\ sentences_with_contractions = {}
    /\ sentence_data = NoSentenceData
    /\ check_result = NoCheckResult
    /\ sentence_data_list = << >>
    /\ response = NoResponse

NextValidation == Validate

SpecValidation == InitValidation /\ [][NextValidation]_vars

----------------------------------------------------------------------------
(* The feature vectors handed to the three classifiers
   (ml_context/style_features.py, ml_context/style_classifier.py,
    ml_context/spell_context_features.py, nlp/feature_extractor.py,
    main.py lines 167-180 and 264-267) *)

\* A feature mapping is a Python dict, which keeps its keys in the order
\* of insertion: it is modelled as the sequence of its (key, value) items.
Keys(items) == [ i \in DOMAIN items |-> items[i][1] ]
Lookup(items, key) == items[CHOOSE i \in DOMAIN items : items[i][1] = key][2]

\* the characters of the feature names, by increasing code point
NameChars ==
    << "_" >> \o LowerChars

CodePoint(c) == CHOOSE i \in DOMAIN NameChars : NameChars[i] = c

\* a < b for two str
RECURSIVE StrLess(_, _)
StrLess(a, b) ==
    IF b = << >> THEN FALSE
    ELSE IF a = << >> THEN TRUE
    ELSE IF a[1] = b[1] THEN StrLess(Tail(a), Tail(b))
    ELSE CodePoint(a[1]) < CodePoint(b[1])

\* sorted(keys)
RECURSIVE sorted(_)
sorted(keys) ==
    IF keys = << >> THEN << >>
    ELSE LET least == CHOOSE i \in DOMAIN keys :
                         \A j \in DOMAIN keys : ~ StrLess(keys[j], keys[i])
         IN  << keys[least] >>
               \o sorted([ j \in 1..(Len(keys) - 1) |->
                             IF j < least THEN keys[j] ELSE keys[j + 1] ])

\* [features[k] for k in sorted(features.keys())]
SortedVector(items) ==
    LET names == sorted(Keys(items))
    IN  [ i \in DOMAIN names |-> Lookup(items, names[i]) ]

\* pd.DataFrame([features]): one row whose columns are the mapping's keys
\* in the mapping's order
DataFrameRow(items) == [ i \in DOMAIN items |-> items[i][2] ]

\* int(b)
BoolInt(b) == IF b THEN 1 ELSE 0

\* a / b as the fraction it is
Quotient(a, b) == [ num |-> a, den |-> b ]

\* round(a / b, 2), in hundredths
RoundedQuotient(a, b) == (200 * a + b) \div (2 * b)

\* s.count("...")
RECURSIVE CountEllipsis(_, _)
CountEllipsis(s, i) ==
    IF i + 2 > Len(s) THEN 0
    ELSE IF s[i] = "." /\ s[i + 1] = "." /\ s[i + 2] = "."
         THEN 1 + CountEllipsis(s, i + 3)
         ELSE CountEllipsis(s, i + 1)

\* style_features.py lines 13-15
CASUAL_WORDS ==
    { <<"b","r","o">>,
      <<"l","o","l">>,
      <<"o","m","g">>,
      <<"w","a","n","n","a">>,
      <<"g","o","n","n","a">>,
      <<"k","i","n","d","a">>,
      <<"d","u","d","e">> }

\* StyleFeatureBuilder.build, style_features.py lines 17-34
build(txt) ==
    LET tokens == Split(Lower(txt))
        contractions ==
            Cardinality({ i \in DOMAIN tokens : "'" \in Range(tokens[i]) })
        casual_words ==
            Cardinality({ i \in DOMAIN tokens : tokens[i] \in CASUAL_WORDS })
        exclamations == Cardinality({ i \in DOMAIN txt : txt[i] = "!" })
        ellipsis == CountEllipsis(txt, 1)
        avg_sentence_length == IF Len(tokens) > 1 THEN Len(tokens) ELSE 1
    IN  << << <<"c","o","n","t","r","a","c","t","i","o","n","_","c","o","u","n","t">>,
          contractions >>,
        << <<"c","a","s","u","a","l","_","w","o","r","d","_","c","o","u","n","t">>,
          casual_words >>,
        << <<"e","x","c","l","a","m","a","t","i","o","n","_","c","o","u","n","t">>,
          exclamations >>,
        << <<"e","l","l","i","p","s","i","s","_","c","o","u","n","t">>,
          ellipsis >>,
        << <<"a","v","g","_","s","e","n","t","e","n","c","e","_","l","e","n","g","t","h">>,
          avg_sentence_length >> >>

\* SpellContextFeatureBuilder.build_features,
\* spell_context_features.py lines 12-31
build_features(word, tag, sentence_tense, edit_distance, word_index, sentence_length, has_time_marker) ==
    << << <<"w","o","r","d","_","l","e","n","g","t","h">>,
         Len(word) >>,
       << <<"e","d","i","t","_","d","i","s","t","a","n","c","e">>,
         edit_distance >>,
       << <<"i","s","_","v","e","r","b">>,
         BoolInt(StartsWith(tag, << "V", "B" >>)) >>,
       << <<"i","s","_","p","a","s","t","_","s","e","n","t","e","n","c","e">>,
         BoolInt(sentence_tense = "past") >>,
       << <<"i","s","_","f","u","t","u","r","e","_","s","e","n","t","e","n","c","e">>,
         BoolInt(sentence_tense = "future") >>,
       << <<"h","a","s","_","t","i","m","e","_","m","a","r","k","e","r">>,
         BoolInt(has_time_marker) >>,
       << <<"r","e","l","a","t","i","v","e","_","p","o","s","i","t","i","o","n">>,
         Quotient(word_index, IF sentence_length > 1 THEN sentence_length ELSE 1) >> >>

\* error.get(key, default)
GetOr(d, key, default) == IF HasKey(d, key) THEN d[key] ELSE default

\* main.py lines 167-175: the features of one spelling error
SpellErrorFeatures(error, txt) ==
    build_features(SpellWord(error).v, << >>, "present",
                   GetOr(error, "edit_distance", 1),
                   GetOr(error, "index", 0),
                   Len(Split(txt)), FALSE)

\* What the tokenizers, the rule engine, pyspellchecker and textstat
\* report about a text (feature_extractor.py lines 65-121): the counts of
\* alphabetic word tokens, of their characters, of distinct ones and of
\* sentences, the numbers of grammar and spelling errors, and the two
\* readability scores in hundredths.
Measurements ==
    [ word_count : { 3, 4 },
      word_chars : { 13 },
      unique_words : { 3 },
      sentence_count : { 1, 2 },
      grammar_errors : { 0, 1 },
      spelling_errors : { 0, 1 },
      flesch_reading_ease : { 8390 },
      flesch_kincaid_grade : { 240, 1120 } ]

\* extract_all_features, feature_extractor.py lines 43-139
extract_all_features(txt, measured) ==
    IF txt = << >> \/ Strip(txt) = << >>
    THEN << << <<"w","o","r","d","_","c","o","u","n","t">>,
              0 >>,
            << <<"s","e","n","t","e","n","c","e","_","c","o","u","n","t">>,
              0 >>,
            << <<"a","v","g","_","s","e","n","t","e","n","c","e","_","l","e","n","g","t","h">>,
              0 >>,
            << <<"c","h","a","r","_","c","o","u","n","t">>,
              0 >>,
            << <<"u","n","i","q","u","e","_","w","o","r","d","s">>,
              0 >>,
            << <<"l","e","x","i","c","a","l","_","d","i","v","e","r","s","i","t","y">>,
              0 >>,
            << <<"a","v","g","_","w","o","r","d","_","l","e","n","g","t","h">>,
              0 >>,
            << <<"g","r","a","m","m","a","r","_","e","r","r","o","r","s">>,
              0 >>,
            << <<"s","p","e","l","l","i","n","g","_","e","r","r","o","r","s">>,
              0 >>,
            << <<"e","r","r","o","r","_","d","e","n","s","i","t","y">>,
              0 >>,
            << <<"f","l","e","s","c","h","_","r","e","a","d","i","n","g","_","e","a","s","e">>,
              0 >>,
            << <<"f","l","e","s","c","h","_","k","i","n","c","a","i","d","_","g","r","a","d","e">>,
              0 >> >>
    ELSE LET word_count == measured.word_count
             sentence_count == measured.sentence_count
             avg_sentence_length ==
                 IF sentence_count > 0
                 THEN RoundedQuotient(word_count, sentence_count) ELSE 0
             lexical_diversity ==
                 IF word_count > 0
                 THEN RoundedQuotient(measured.unique_words, word_count) ELSE 0
             avg_word_length ==
                 IF word_count > 0
                 THEN RoundedQuotient(measured.word_chars, word_count) ELSE 0
             total_errors == measured.grammar_errors + measured.spelling_errors
             error_density ==
                 IF word_count > 0
                 THEN RoundedQuotient(total_errors * 100, word_count) ELSE 0
         IN  << << <<"w","o","r","d","_","c","o","u","n","t">>,
               word_count >>,
             << <<"s","e","n","t","e","n","c","e","_","c","o","u","n","t">>,
               sentence_count >>,
             << <<"a","v","g","_","s","e","n","t","e","n","c","e","_","l","e","n","g","t","h">>,
               avg_sentence_length >>,
             << <<"c","h","a","r","_","c","o","u","n","t">>,
               Len(txt) >>,
             << <<"u","n","i","q","u","e","_","w","o","r","d","s">>,
               measured.unique_words >>,
             << <<"l","e","x","i","c","a","l","_","d","i","v","e","r","s","i","t","y">>,
               lexical_diversity >>,
             << <<"a","v","g","_","w","o","r","d","_","l","e","n","g","t","h">>,
               avg_word_length >>,
             << <<"g","r","a","m","m","a","r","_","e","r","r","o","r","s">>,
               measured.grammar_errors >>,
             << <<"s","p","e","l","l","i","n","g","_","e","r","r","o","r","s">>,
               measured.spelling_errors >>,
             << <<"e","r","r","o","r","_","d","e","n","s","i","t","y">>,
               error_density >>,
             << <<"f","l","e","s","c","h","_","r","e","a","d","i","n","g","_","e","a","s","e">>,
               measured.flesch_reading_ease >>,
             << <<"f","l","e","s","c","h","_","k","i","n","c","a","i","d","_","g","r","a","d","e">>,
               measured.flesch_kincaid_grade >> >>

\* "omg it's great!... "
Omg ==
    <<"o","m","g"," ","i","t","'","s"," ","g","r","e","a","t","!",".",".","."," ">>

\* the texts whose features are built: those of the pipeline that pass
\* validation, alone or followed by the casual phrase
FeatureTexts ==
    { t \o tail : t \in { txt \in PipelineTexts : validate_input_text(txt).is_valid },
                  tail \in { << >>, Omg } }

\* a validated text, its spelling errors found, every classifier loaded
InitFeatures ==
    /\ pc = "features"
    /\ NoCalls
    /\ NoFeatures
    /\ text \in FeatureTexts
    /\ spell_errors = PyDicts(check_spelling(text))
    /\ tagger = "tags"
    /\ spell_context_model = Answering(ConfidenceCutoff)
    /\ style_classifier = Answering("formal")
    /\ model = Answering([ grade |-> "A", score |-> CONFIDENCE_THRESHOLD ])
    /\ grammar_issues = << >>
    /\ sentences = << >>
    /\ writing_style = "neutral"
    /\ ml_spell_confidences = EmptyDict
    /\ final_issues = << >>
    /\ sentences_with_contractions = {}
    /\ sentence_data = NoSentenceData
    /\ check_result = NoCheckResult
    /\ sentence_data_list = << >>
    /\ response = NoResponse

\* style_classifier.py lines 17-20: predict_style builds the features and
\* hands the vector to the model
StyleVector ==
    /\ pc = "features"
    /\ features' = build(text)
    /\ feature_vector' = SortedVector(features')
    /\ pc' = "style_handed"
    /\ UNCHANGED << shared_vars, text, spell_errors, grammar_issues, sentences,
                    writing_style, ml_spell_confidences, final_issues,
                    sentences_with_contractions, sentence_data, check_result,
                    pipeline_vars >>

\* main.py lines 156-178: the vector of one spelling error is handed to
\* the spell-confidence model
SpellVector ==
    /\ pc = "features"
    /\ Truthy(spell_context_model)
    /\ \E k \in DOMAIN spell_errors :
          /\ ~ NoWord(SpellWord(spell_errors[k].v))
          /\ features' = SpellErrorFeatures(spell_errors[k].v, text)
    /\ feature_vector' = SortedVector(features')
    /\ pc' = "spell_handed"
    /\ UNCHANGED << shared_vars, text, spell_errors, grammar_issues, sentences,
                    writing_style, ml_spell_confidences, final_issues,
                    sentences_with_contractions, sentence_data, check_result,
                    pipeline_vars >>

\* main.py lines 264-267: the frame of the text's features is handed to
\* the quality-grade model
GradeFrame ==
    /\ pc = "features"
    /\ \E measured \in Measurements :
          features' = extract_all_features(text, measured)
    /\ feature_vector' = DataFrameRow(features')
    /\ pc' = "grade_handed"
    /\ UNCHANGED << shared_vars, text, spell_errors, grammar_issues, sentences,
                    writing_style, ml_spell_confidences, final_issues,
                    sentences_with_contractions, sentence_data, check_result,
                    pipeline_vars >>

NextFeatures == StyleVector \/ SpellVector \/ GradeFrame

SpecFeatures == InitFeatures /\ [][NextFeatures]_vars

----------------------------------------------------------------------------
(* Analysis calls in flight together: check_spelling and
   predict_text_quality calls share service.py's DICTIONARY and main.py's
   engine objects (app.py serves every request from the same module) *)

\* the number of calls in flight
MaxCalls == 2

CallKinds == { "check_spelling", "predict_text_quality" }

\* "Teh cat dont runs yesterday. " and "He runs yesterday. "
CallTexts ==
    { <<"T","e","h"," ","c","a","t"," ","d","o","n","t"," ","r","u","n","s"," ","y","e","s","t","e","r","d","a","y","."," ">>,
      <<"H","e"," ","r","u","n","s"," ","y","e","s","t","e","r","d","a","y","."," ">> }

\* a call that has not started: its text, and the locals of check_spelling
NewCall(kind, txt) ==
    [ kind |-> kind, text |-> txt, pc |-> "start", matches |-> << >>,
      i |-> 1, issue_id |-> 1, issues |-> << >>, result |-> PyNone ]

\* service.py lines 89-98, against the dictionary as it is when the
\* word is looked up
IsValidWordIn(words, normalized_word) ==
    \/ normalized_word \in words
    \/ \E form \in normalize_word(normalized_word) : form \in words

\* one iteration of the loop of check_spelling, lines 77-120
CheckStep(call, words) ==
    LET m == call.matches[call.i]
        original_word == m.word
        normalized_word == Lower(original_word)
    IN  IF should_ignore(original_word) \/ IsValidWordIn(words, normalized_word)
        THEN [ call EXCEPT !.i = @ + 1 ]
        ELSE [ call EXCEPT !.i = @ + 1,
                           !.issue_id = NextIssueId(@),
                           !.issues = Append(@, SpellingIssue(call.text, m,
                                                              call.issue_id)) ]

\* main.py lines 148-298 for loaded classifiers that answer: what
\* predict_text_quality returns once the spelling errors are known
AnalysisRest(txt, issues) ==
    LET errors == PyDicts(issues)
        data_list == parse(txt)
        confidences == spell_confidences(errors, Answering(ConfidenceCutoff - 1))
        found == GrammarRulesLoop(data_list, 1, << >>)
        style == refine_style(predict_style(Answering("formal")), txt)
        language_issues ==
            fuse(errors, found, sentences_text(data_list), style, confidences)
    IN  ResultResponse([ grade |-> "A", score |-> CONFIDENCE_THRESHOLD ],
                       style, language_issues)

\* what a call returns when it is the only one
AloneResult(kind, txt) ==
    IF kind = "check_spelling" THEN check_spelling(txt)
    ELSE LET validation == validate_input_text(txt)
         IN  IF ~ validation.is_valid
             THEN ErrorResponse(validation.message)
             ELSE AnalysisRest(txt, check_spelling(txt))

InitCalls ==
    /\ pc = "calls"
    /\ NoFeatures
    /\ NoPipeline
    /\ dictionary = DICTIONARY
    /\ engines = Engines
    /\ calls \in [ 1..MaxCalls ->
                     { NewCall(kind, txt) : kind \in CallKinds, txt \in CallTexts } ]
    /\ text = << >>
    /\ spell_errors = << >>
    /\ grammar_issues = << >>
    /\ sentences = << >>
    /\ writing_style = "neutral"
    /\ ml_spell_confidences = EmptyDict
    /\ final_issues = << >>
    /\ sentences_with_contractions = {}
    /\ sentence_data = NoSentenceData
    /\ check_result = NoCheckResult

\* a call starts: predict_text_quality validates its text (main.py lines
\* 125-131), then WORD_PATTERN.finditer(text) of check_spelling
CallBegins ==
    \E c \in DOMAIN calls :
        /\ calls[c].pc = "start"
        /\ LET validation == validate_input_text(calls[c].text)
           IN  calls' =
                 [ calls EXCEPT ![c] =
                     IF @.kind = "predict_text_quality" /\ ~ validation.is_valid
                     THEN [ @ EXCEPT !.pc = "done",
                                     !.result = ErrorResponse(validation.message) ]
                     ELSE [ @ EXCEPT !.pc = "loop",
                                     !.matches = FindWords(calls[c].text, 1,
                                                           << >>, 0, << >>) ] ]
        /\ UNCHANGED << dictionary, engines >>

\* a learning variant of the loop step: a word that was flagged is added
\* to the shared dictionary
CallChecksWordLearning ==
    \E c \in DOMAIN calls :
        /\ calls[c].pc = "loop"
        /\ calls[c].i <= Len(calls[c].matches)
        /\ calls' = [ calls EXCEPT ![c] = CheckStep(@, dictionary) ]
        /\ dictionary' =
             IF Len(calls'[c].issues) > Len(calls[c].issues)
             THEN dictionary \cup { Lower(calls[c].matches[calls[c].i].word) }
             ELSE dictionary
        /\ UNCHANGED engines

\* a call looks one word up in the shared dictionary
CallChecksWord ==
    \E c \in DOMAIN calls :
        /\ calls[c].pc = "loop"
        /\ calls[c].i <= Len(calls[c].matches)
        /\ calls' = [ calls EXCEPT ![c] = CheckStep(@, dictionary) ]
        /\ UNCHANGED << dictionary, engines >>

\* the loop is over: check_spelling returns its issues, to the caller or
\* to predict_text_quality (main.py line 143)
CallLeavesLoop ==
    \E c \in DOMAIN calls :
        /\ calls[c].pc = "loop"
        /\ calls[c].i > Len(calls[c].matches)
        /\ calls' =
             [ calls EXCEPT ![c] =
                 IF @.kind = "check_spelling"
                 THEN [ @ EXCEPT !.pc = "done", !.result = calls[c].issues ]
                 ELSE [ @ EXCEPT !.pc = "rest" ] ]
        /\ UNCHANGED << dictionary, engines >>

\* predict_text_quality runs its remaining stages on the engine objects
\* and returns
CallAnalyses ==
    \E c \in DOMAIN calls :
        /\ calls[c].pc = "rest"
        /\ calls' = [ calls EXCEPT ![c] =
                        [ @ EXCEPT !.pc = "done",
                                   !.result = AnalysisRest(calls[c].text,
                                                            calls[c].issues) ] ]
        /\ UNCHANGED << dictionary, engines >>

NextCalls ==
    /\ \/ CallBegins
       \/ CallChecksWord
       \/ CallLeavesLoop
       \/ CallAnalyses
    /\ UNCHANGED << pc, text, spell_errors, grammar_issues, sentences,
                    writing_style, ml_spell_confidences, final_issues,
                    sentences_with_contractions, sentence_data, check_result,
                    pipeline_vars, feature_vars >>

SpecCalls == InitCalls /\ [][NextCalls]_vars

----------------------------------------------------------------------------
(* predict_text_quality: properties *)

Returned == pc = "returned"

\* an exception left predict_text_quality
ExceptionEscaped == pc = "raised"

IsResponseMapping(r) == r.t = "dict" /\ HasKey(r.v, "error")

\* C1: predict_text_quality never lets an exception escape: whichever
\* stage fails (spell checking, sentence parsing / tagging, spell confidence,
\* grammar checking, style classification, refinement, fusion, grade
\* classification), the call ends by returning a response mapping, a
\* result or {error: true, message}.
C1_NoExceptionEscapes ==
    /\ ~ ExceptionEscaped
    /\ Returned => IsResponseMapping(response)

----------------------------------------------------------------------------
(* Properties of fuse (checked under SpecFuse) *)

IsSpellingIssue(d) == HasKey(d, "issue_type") /\ d["issue_type"] = "spelling"
IsStyleIssue(d) == HasKey(d, "type") /\ d["type"] = "style"
IsGrammarIssue(d) == HasKey(d, "type") /\ d["type"] \in GrammarTypes

FuseReturned == pc = "fuse_done"

DontWithApostrophe == <<"d","o","n","'","t">>

\* the sentence is a str and one of its whitespace-separated tokens is tok
ContainsToken(sentence, tok) ==
    /\ sentence.t = "str"
    /\ tok \in Range(Split(sentence.v))

StyleIssueFor(sid) ==
    \E k \in DOMAIN final_issues :
        /\ IsStyleIssue(final_issues[k])
        /\ final_issues[k]["sentence_id"] = sid

GrammarIssueFor(sid) ==
    \E k \in DOMAIN final_issues :
        /\ IsGrammarIssue(final_issues[k])
        /\ HasKey(final_issues[k], "sentence_id")
        /\ final_issues[k]["sentence_id"] = sid

\* C2: when fuse is called with writing_style "formal" and a sentence whose
\* text contains the token "don't", the returned list holds a style issue
\* for that sentence id and no grammar issue of that sentence id.
C2_FormalDontYieldsStyleIssue ==
    (FuseReturned /\ writing_style = "formal") =>
        \A i \in DOMAIN sentences :
            ContainsToken(sentences[i], DontWithApostrophe) =>
                /\ StyleIssueFor(i - 1)
                /\ ~ GrammarIssueFor(i - 1)

\* contractions written without an apostrophe that the sample sentences use
Dont == <<"d","o","n","t">>
Thats == <<"t","h","a","t","s">>

\* C12: when the writing style given to fusion is "formal", every
\* contraction written without an apostrophe in a sentence (such as "dont"
\* and "thats" in "I dont think thats correct, lol.") yields a style issue
\* naming that token, and every grammar issue whose sentence_id is that
\* sentence is left out of the fused output.
C12_ApostropheLessContractionsFlagged ==
    (FuseReturned /\ writing_style = "formal") =>
        \A i \in DOMAIN sentences :
            \A tok \in { Dont, Thats } :
                ContainsToken(sentences[i], tok) =>
                    /\ \E k \in DOMAIN final_issues :
                          /\ IsStyleIssue(final_issues[k])
                          /\ final_issues[k]["sentence_id"] = i - 1
                          /\ final_issues[k]["token"] = tok
                    /\ ~ GrammarIssueFor(i - 1)

\* C3: a well-formed grammar issue of the input is absent from the returned
\* list exactly when writing_style is "formal" and pass 2 produced a style
\* issue for the sentence the issue's sentence_id names; any other
\* well-formed grammar issue (other style, unmarked sentence, no
\* sentence_id) is in the returned list.
C3_GrammarSuppressedIffFormalAndMarked ==
    FuseReturned =>
        \A j \in DOMAIN grammar_issues :
            grammar_issues[j].t = "dict" =>
                LET g == grammar_issues[j].v
                IN  (g \notin Range(final_issues)) <=>
                        /\ writing_style = "formal"
                        /\ HasKey(g, "sentence_id")
                        /\ StyleIssueFor(g["sentence_id"])

\* a call that suppressed one grammar issue and kept another
C3_Witness ==
    /\ FuseReturned
    /\ \E j \in DOMAIN grammar_issues :
          /\ grammar_issues[j].t = "dict"
          /\ grammar_issues[j].v \notin Range(final_issues)
    /\ \E j \in DOMAIN grammar_issues :
          /\ grammar_issues[j].t = "dict"
          /\ grammar_issues[j].v \in Range(final_issues)

\* C4: every issue of the returned list carries an issue_type and a severity
\* in {low, medium, high}, and the severity is classify(issue_type).
C4_EveryIssueHasSeverity ==
    FuseReturned =>
        \A k \in DOMAIN final_issues :
            /\ HasKey(final_issues[k], "issue_type")
            /\ HasKey(final_issues[k], "severity")
            /\ final_issues[k]["severity"] \in { LOW, MEDIUM, HIGH }
            /\ final_issues[k]["severity"] = classify(final_issues[k]["issue_type"])

SpellItemFails(e) == DictCopy(e).raised
SpellItemProcessed(e) == ~ SpellItemFails(e)
GrammarItemSurvives(g) ==
    /\ g.t = "dict"
    /\ ~ ( /\ writing_style = "formal"
           /\ HasKey(g.v, "sentence_id")
           /\ g.v["sentence_id"] \in sentences_with_contractions )
TokenIsContraction(tok) == tok \in CONTRACTIONS

\* the spelling block: one issue per processed spelling error, in input order
ExpectedSpellBlock ==
    LET ok == SelectSeq(spell_errors, SpellItemProcessed)
    IN  [ k \in 1..Len(ok) |->
            ProcessSpellError(ok[k], writing_style, ml_spell_confidences).value ]

\* the grammar block: the surviving grammar issues, in input order
ExpectedGrammarBlock ==
    LET ok == SelectSeq(grammar_issues, GrammarItemSurvives)
    IN  [ k \in 1..Len(ok) |-> ok[k].v ]

\* the contraction tokens of sentence i (1-based), in token order
ContractionTokens(i) ==
    IF writing_style = "formal" /\ sentences[i].t = "str"
    THEN SelectSeq(Split(Lower(sentences[i].v)), TokenIsContraction)
    ELSE << >>

\* blk is made of style issues only, in increasing sentence order, and the
\* issues of each sentence name its contraction tokens in token order
IsStyleBlock(blk) ==
    /\ \A k \in DOMAIN blk : IsStyleIssue(blk[k])
    /\ \A k1, k2 \in DOMAIN blk :
          k1 < k2 => blk[k1]["sentence_id"] <= blk[k2]["sentence_id"]
    /\ \A k \in DOMAIN blk : blk[k]["sentence_id"] + 1 \in DOMAIN sentences
    /\ \A i \in DOMAIN sentences :
          LET OfSentence(d) == d["sentence_id"] = i - 1
              mine == SelectSeq(blk, OfSentence)
          IN  [ k \in 1..Len(mine) |-> mine[k]["token"] ] = ContractionTokens(i)

\* C5: the list fuse builds is the spelling issues in input order, then the
\* style issues in sentence order (token order within a sentence), then the
\* surviving grammar issues in input order; nothing of a later block
\* precedes anything of an earlier block.
C5_ThreeBlocksInOrder ==
    LET nSpell == Len(ExpectedSpellBlock)
        nGrammar == IF FuseReturned THEN Len(ExpectedGrammarBlock) ELSE 0
        n == Len(final_issues)
    IN  /\ pc = "fuse_style" => final_issues = ExpectedSpellBlock
        /\ pc \in { "fuse_grammar", "fuse_done" } =>
              /\ n >= nSpell + nGrammar
              /\ SubSeq(final_issues, 1, nSpell) = ExpectedSpellBlock
              /\ IsStyleBlock(SubSeq(final_issues, nSpell + 1, n - nGrammar))
              /\ FuseReturned =>
                    SubSeq(final_issues, n - nGrammar + 1, n) = ExpectedGrammarBlock

\* a returned list that holds issues of all three blocks
C5_Witness ==
    /\ FuseReturned
    /\ \E k \in DOMAIN final_issues : IsSpellingIssue(final_issues[k])
    /\ \E k \in DOMAIN final_issues : IsStyleIssue(final_issues[k])
    /\ \E k \in DOMAIN final_issues : IsGrammarIssue(final_issues[k])

\* the confidence map holds a value below 0.7 for the word of mapping d
LowConfidence(d) ==
    LET word == SpellWord(d)
    IN  /\ word.t = "str"
        /\ word.v \in DOMAIN ml_spell_confidences
        /\ ml_spell_confidences[word.v] < ConfidenceCutoff

\* C6: the issue fuse returns for a spelling error has severity "medium"
\* and issue_type "spelling", and its type is "suggestion" exactly when the
\* confidence map holds a value for the error's word and the value is below
\* 0.7.
C6_SuggestionIffLowConfidence ==
    pc \in { "fuse_style", "fuse_grammar", "fuse_done" } =>
        LET ok == SelectSeq(spell_errors, SpellItemProcessed)
        IN  /\ Len(final_issues) >= Len(ok)
            /\ \A k \in 1..Len(ok) :
                  LET out == final_issues[k]
                      given == DictCopy(ok[k]).value
                  IN  /\ HasKey(out, "severity") /\ out["severity"] = "medium"
                      /\ HasKey(out, "issue_type") /\ out["issue_type"] = "spelling"
                      /\ (HasKey(out, "type") /\ out["type"] = "suggestion")
                            <=> LowConfidence(given)

\* a returned list with a spelling issue marked "suggestion" and one not
C6_Witness ==
    /\ FuseReturned
    /\ \E k \in DOMAIN final_issues :
          /\ IsSpellingIssue(final_issues[k])
          /\ HasKey(final_issues[k], "type")
          /\ final_issues[k]["type"] = "suggestion"
    /\ \E k \in DOMAIN final_issues :
          /\ IsSpellingIssue(final_issues[k])
          /\ HasKey(final_issues[k], "word")
          /\ ~ HasKey(final_issues[k], "type")

\* the inputs with every failing item left out; a sentence keeps its place
\* (and so the later sentences their ids) and contributes nothing
WithoutFailingSpellErrors == SelectSeq(spell_errors, SpellItemProcessed)
IsMapping(x) == x.t = "dict"
WithoutFailingGrammarIssues == SelectSeq(grammar_issues, IsMapping)
WithEmptyForNonStr ==
    [ i \in DOMAIN sentences |->
        IF sentences[i].t = "str" THEN sentences[i] ELSE PyStr(<< >>) ]

\* C7: a malformed item does not abort fuse: the returned list is the one
\* fuse returns for the same inputs without the failing spelling errors and
\* grammar issues and with nothing in place of a non-str sentence.
C7_FailingItemsOnlyAreLeftOut ==
    FuseReturned =>
        final_issues = fuse(WithoutFailingSpellErrors, WithoutFailingGrammarIssues,
                            WithEmptyForNonStr, writing_style, ml_spell_confidences)

\* a call whose spelling errors hold a failing item before a good one, and
\* whose sentences or grammar issues hold a malformed item too
C7_Witness ==
    /\ FuseReturned
    /\ \E i, j \in DOMAIN spell_errors :
          /\ i < j
          /\ SpellItemFails(spell_errors[i])
          /\ spell_errors[j].t = "dict"
          /\ \E k \in DOMAIN final_issues : IsSpellingIssue(final_issues[k])
    /\ \/ \E i \in DOMAIN sentences : sentences[i].t # "str"
       \/ \E i \in DOMAIN grammar_issues : grammar_issues[i].t # "dict"

----------------------------------------------------------------------------
(* Properties of check_spelling (checked under SpecSpelling) *)

\* check_spelling has just returned its list
SpellingChecked == pc = "fuse_spell"

\* the word-boundary tokens of the text: [a, b] is a maximal run of word
\* characters (1-based, inclusive)
IsToken(a, b) ==
    /\ a <= b
    /\ \A i \in a..b : IsWordChar(text[i])
    /\ (a = 1 \/ ~ IsWordChar(text[a - 1]))
    /\ (b = Len(text) \/ ~ IsWordChar(text[b + 1]))

TokenStarts ==
    { a \in 1..Len(text) :
        IsWordChar(text[a]) /\ (a = 1 \/ ~ IsWordChar(text[a - 1])) }

TokenSpans ==
    { << a, CHOOSE b \in a..Len(text) : IsToken(a, b) >> : a \in TokenStarts }

\* purely numeric, all-uppercase, length <= 2, URL / email, or without any
\* alphanumeric character
Ignorable(tok) ==
    \/ \A i \in DOMAIN tok : IsDigitChar(tok[i])
    \/ ( /\ \E i \in DOMAIN tok : IsUpperChar(tok[i])
         /\ \A i \in DOMAIN tok : ~ IsLowerChar(tok[i]) )
    \/ Len(tok) <= 2
    \/ is_url_or_email(tok)
    \/ \A i \in DOMAIN tok : ~ IsAlnumChar(tok[i])

\* neither the lowercase form nor a candidate form is in the dictionary
Unknown(tok) ==
    /\ Lower(tok) \notin DICTIONARY
    /\ normalize_word(Lower(tok)) \cap DICTIONARY = {}

FlaggedSpans ==
    { << spell_errors[k].v["start_index"] + 1, spell_errors[k].v["end_index"] >> :
        k \in DOMAIN spell_errors }

\* C8: check_spelling flags a word-boundary token exactly when it is not
\* ignorable and neither its lowercase form nor a normalized candidate form
\* is in the dictionary; a text whose tokens are all in the dictionary
\* gives the empty list.
C8_FlaggedIffUnknownAndNotIgnorable ==
    SpellingChecked =>
        /\ FlaggedSpans =
              { ab \in TokenSpans :
                  LET tok == SubSeq(text, ab[1], ab[2])
                  IN  ~ Ignorable(tok) /\ Unknown(tok) }
        /\ Cardinality(FlaggedSpans) = Len(spell_errors)
        /\ (\A ab \in TokenSpans : SubSeq(text, ab[1], ab[2]) \in DICTIONARY)
              => spell_errors = << >>

\* a text with a flagged token and a token that only a normalized form
\* makes valid
C8_Witness ==
    /\ SpellingChecked
    /\ spell_errors # << >>
    /\ \E ab \in TokenSpans :
          LET tok == SubSeq(text, ab[1], ab[2])
          IN  /\ ~ Ignorable(tok)
              /\ Lower(tok) \notin DICTIONARY
              /\ ab \notin FlaggedSpans

\* a text of dictionary words only, with more than one token
C8_WitnessAllInDictionary ==
    /\ SpellingChecked
    /\ Cardinality(TokenSpans) >= 2
    /\ \A ab \in TokenSpans : SubSeq(text, ab[1], ab[2]) \in DICTIONARY
    /\ spell_errors = << >>

SpellingIssuesReturned ==
    SelectSeq(final_issues, IsSpellingIssue)

\* C9: the spelling issues of check_spelling(text), after fuse, carry the
\* ids 1, 2, 3, ... in left-to-right scan order (strictly increasing) and
\* offsets with 0 <= start_index < end_index <= len(text).
C9_IdsIncreaseAndOffsetsInText ==
    pc \in { "fuse_style", "fuse_grammar", "fuse_done" } =>
        LET out == SpellingIssuesReturned
        IN  /\ Len(out) = Len(spell_errors)
            /\ \A k \in DOMAIN out :
                  /\ out[k]["issue_id"] = k
                  /\ 0 <= out[k]["start_index"]
                  /\ out[k]["start_index"] < out[k]["end_index"]
                  /\ out[k]["end_index"] <= Len(text)
            /\ \A k1, k2 \in DOMAIN out :
                  k1 < k2 =>
                      /\ out[k1]["issue_id"] < out[k2]["issue_id"]
                      /\ out[k1]["end_index"] <= out[k2]["start_index"]

\* a fuse result with at least two spelling issues of one text
C9_Witness ==
    /\ FuseReturned
    /\ Len(SpellingIssuesReturned) >= 2
    /\ Len(spell_errors) >= 2

----------------------------------------------------------------------------
(* Properties of GrammarRuleChecker.check (checked under SpecGrammar) *)

CheckReturned == pc = "check_done"

\* every entry of pos_tags is a (word, tag) pair of two strs
WellFormedTags(data) ==
    \A i \in DOMAIN data.pos_tags :
        /\ data.pos_tags[i].t = "pair"
        /\ data.pos_tags[i].word.t = "str"
        /\ data.pos_tags[i].tag.t = "str"

HasTag(data, tag) ==
    \E i \in DOMAIN data.pos_tags : data.pos_tags[i].tag = tag

ReturnsIssueOfType(issue_type) ==
    /\ ~ check_result.raised
    /\ \E k \in DOMAIN check_result.value : check_result.value[k]["type"] = issue_type

\* C10 as claimed: for every sentence record with tense "past" and a VBZ
\* tag in its tag sequence, check returns a list that includes a
\* tense_mismatch issue, whatever its subject and main_verb are.
C10_PastWithVBZ_AnySubject ==
    ( /\ CheckReturned
      /\ WellFormedTags(sentence_data)
      /\ sentence_data.tense = "past"
      /\ HasTag(sentence_data, TagVBZ) )
        => ReturnsIssueOfType("tense_mismatch")

\* C10 as amended: for every sentence record with a non-empty subject and a
\* non-empty main_verb, tense "past" and a VBZ tag in its tag sequence,
\* check returns a list that includes a tense_mismatch issue; with a
\* missing or empty subject or main_verb it returns the empty list.
C10_PastWithVBZ_GivenSubjectAndVerb ==
    ( /\ CheckReturned
      /\ WellFormedTags(sentence_data)
      /\ sentence_data.tense = "past"
      /\ HasTag(sentence_data, TagVBZ) )
        => IF Falsy(sentence_data.subject) \/ Falsy(sentence_data.main_verb)
           THEN check_result = Ok(<< >>)
           ELSE ReturnsIssueOfType("tense_mismatch")

\* a past-tense record with subject, verb and a VBZ tag, checked, with the
\* tense_mismatch issue returned
C10_Witness ==
    /\ CheckReturned
    /\ WellFormedTags(sentence_data)
    /\ sentence_data.tense = "past"
    /\ HasTag(sentence_data, TagVBZ)
    /\ ~ Falsy(sentence_data.subject)
    /\ ~ Falsy(sentence_data.main_verb)
    /\ ReturnsIssueOfType("tense_mismatch")

\* C11: GrammarRuleChecker.check never raises: for a sentence record of
\* unexpected shape (a pos_tags entry that is no (word, tag) pair, a tag or
\* word that is no str) it returns the issues accumulated so far instead of
\* propagating the exception.
C11_CheckNeverRaises ==
    CheckReturned => ~ check_result.raised

\* positions of the subject token in the tag sequence
SubjectPositions(data) ==
    { i \in DOMAIN data.pos_tags : data.pos_tags[i].word = data.subject }

\* the tag of the subject token at position i is a plural one
PluralAt(data, i) == data.pos_tags[i].tag \in { TagNNS, TagNNPS }

\* a VBZ tag after a plural subject token, or a VBP tag after a subject
\* token that is not plural (the nearest subject token before the verb)
VerbDisagreesAfterSubject(data) ==
    \E j \in DOMAIN data.pos_tags :
        \E i \in SubjectPositions(data) :
            /\ i < j
            /\ \A k \in SubjectPositions(data) : k < j => k <= i
            /\ \/ data.pos_tags[j].tag = TagVBZ /\ PluralAt(data, i)
               \/ data.pos_tags[j].tag = TagVBP /\ ~ PluralAt(data, i)

IssuesOfType(issue_type) ==
    { k \in DOMAIN check_result.value : check_result.value[k]["type"] = issue_type }

\* C18: for a sentence record with a subject and a main verb, check emits a
\* subject_verb_agreement issue exactly when a VBZ tag occurs after a plural
\* (NNS / NNPS) subject token or a VBP tag occurs after a subject token
\* that is not plural; a VBZ or VBP tag before the subject token never
\* triggers the rule, and there is at most one such issue per sentence.
C18_AgreementIssueIffVerbAfterSubject ==
    ( /\ CheckReturned
      /\ WellFormedTags(sentence_data)
      /\ ~ Falsy(sentence_data.subject)
      /\ ~ Falsy(sentence_data.main_verb) )
        => /\ ~ check_result.raised
           /\ Cardinality(IssuesOfType("subject_verb_agreement")) <= 1
           /\ (IssuesOfType("subject_verb_agreement") # {})
                 <=> VerbDisagreesAfterSubject(sentence_data)

----------------------------------------------------------------------------
(* Properties of validate_input_text (checked under SpecValidation) *)

\* the text was rejected with this message
RejectedWith(message) ==
    /\ Returned
    /\ response = ErrorResponse(message)

\* digits and blanks only, with at least one digit
DigitsOnly(txt) ==
    /\ \E i \in DOMAIN txt : IsDigitChar(txt[i])
    /\ \A i \in DOMAIN txt : IsDigitChar(txt[i]) \/ IsSpaceChar(txt[i])

\* C13: validate_input_text has a message of its own for each of its five
\* rejection reasons and each is produced for some input; in particular a
\* text made only of digits that has at least MIN_CHAR_COUNT characters and
\* MIN_WORD_COUNT words is rejected with the numeric-only message.
C13_DigitsOnlyRejectedAsNumeric ==
    ( /\ pc # "validate"
      /\ DigitsOnly(text)
      /\ Len(Strip(text)) >= MIN_CHAR_COUNT
      /\ Len(Split(text)) >= MIN_WORD_COUNT )
        => RejectedWith("Text contains only numbers.")

----------------------------------------------------------------------------
(* Properties of the prediction step and the response of
   predict_text_quality (checked under SpecPipeline) *)

\* the quality-grade classifier is about to be asked, and it fails
GradeClassifierFails == pc = "fuse_done" /\ model.raises

\* C14: when feature extraction or predict_proba fails for a validated
\* text, the prediction step ends the call by returning exactly
\* {error: true, message}: no predicted_grade, confidence or
\* language_issues, however many issues fusion produced, and no exception.
C14_ClassifierFailureGivesErrorResponse ==
    [][ GradeClassifierFails
          => /\ pc' = "returned"
             /\ response'.t = "dict"
             /\ DOMAIN response'.v = { "error", "message" }
             /\ response'.v.error = TRUE ]_vars

\* the classifier failed after fusion had produced issues, and the call
\* returned the error response
C14_Witness ==
    /\ Returned
    /\ model.raises
    /\ final_issues # << >>
    /\ response = ErrorResponse("Prediction engine failed.")

\* the call returned a result, not an error response
Succeeded ==
    /\ Returned
    /\ response.t = "dict"
    /\ response.v.error = FALSE

\* C15: in every successful response is_confident is true exactly when the
\* confidence the response carries (rounded to 2 decimals, here in
\* hundredths) is at least CONFIDENCE_THRESHOLD.
C15_IsConfidentIffReportedConfidenceAtLeastThreshold ==
    Succeeded =>
        ( response.v.is_confident
            <=> response.v.confidence * 10 >= CONFIDENCE_THRESHOLD )

----------------------------------------------------------------------------
(* Properties of the feature vectors (checked under SpecFeatures) *)

\* a feature mapping was built and its values handed to a classifier
Handed == pc \in { "style_handed", "spell_handed", "grade_handed" }

\* C16: for each of the three classifiers (style, spell-confidence,
\* quality-grade) the values handed to the model are the feature values in
\* alphabetical order of the feature names.
C16_VectorInAlphabeticalOrderOfNames ==
    Handed => feature_vector = SortedVector(features)

----------------------------------------------------------------------------
(* Properties of calls in flight together (checked under SpecCalls) *)

CallDone(c) == calls[c].pc = "done"

\* C17: for every interleaving of check_spelling / predict_text_quality
\* calls on possibly different texts, the shared dictionary and the
\* module-level engine objects are never modified, each call returns what
\* it returns when run alone on its text, and two check_spelling calls on
\* the same text return identical lists.
C17_CallsIndependentAndSharedStateUntouched ==
    /\ dictionary = DICTIONARY
    /\ engines = Engines
    /\ \A c \in DOMAIN calls :
          CallDone(c) => calls[c].result = AloneResult(calls[c].kind, calls[c].text)
    /\ \A c, d \in DOMAIN calls :
          ( /\ CallDone(c) /\ CallDone(d)
            /\ calls[c].kind = "check_spelling" /\ calls[d].kind = "check_spelling"
            /\ calls[c].text = calls[d].text )
              => calls[c].result = calls[d].result

\* a check_spelling call has returned its flagged words while another call
\* on the same text, started before, is in the middle of its loop and has
\* flagged a word already
C17_Witness ==
    \E c, d \in DOMAIN calls :
        /\ c # d
        /\ calls[c].text = calls[d].text
        /\ calls[c].kind = "check_spelling"
        /\ CallDone(c)
        /\ calls[c].result # << >>
        /\ calls[d].pc = "loop"
        /\ calls[d].issues # << >>
        /\ calls[d].i <= Len(calls[d].matches)

----------------------------------------------------------------------------
(* Properties of the hybrid refinement (checked under SpecPipeline) *)

\* the style as the classifier step left it, before the refinement
ClassifierStyle == predict_style(style_classifier)

\* the refinement has run and the call has not ended
Refined ==
    pc \in { "sentences_text", "fuse_spell", "fuse_style", "fuse_grammar",
             "fuse_done" }

\* the word is this contraction, whatever its case and whichever
\* apostrophe (plain or typographic) it is written with
IsContraction(word, contraction) ==
    /\ Len(word) = Len(contraction)
    /\ \A i \in DOMAIN word :
          IF contraction[i] = "'"
          THEN word[i] \in { "'", RightSingleQuote, LeftSingleQuote }
          ELSE LowerChar(word[i]) = contraction[i]

\* how many whitespace-separated words of the text are listed contractions
ListedContractionCount(txt) ==
    LET words == Split(txt)
    IN  Cardinality({ i \in DOMAIN words :
                        \E contraction \in RefinementContractions :
                            IsContraction(words[i], contraction) })

\* C19: the refinement changes the classifier's style only from formal to
\* casual, exactly when the text has at least 2 words matching the
\* contraction list (case-insensitively, after quote normalisation) and at
\* least 8 words; neutral and casual are never changed and nothing
\* becomes formal.
C19_DowngradeOnlyFormalWithContractions ==
    /\ Refined =>
          writing_style =
             IF /\ ClassifierStyle = "formal"
                /\ ListedContractionCount(text) >= 2
                /\ Len(Split(text)) >= 8
             THEN "casual"
             ELSE ClassifierStyle
    /\ Succeeded => ( response.v.writing_style = "formal"
                        => ClassifierStyle = "formal" )

\* a formal text of 8 words, two of them contractions written with the
\* typographic apostrophe, went through the refinement and is casual
C19_Witness ==
    /\ Refined
    /\ ClassifierStyle = "formal"
    /\ Len(Split(text)) = 8
    /\ ListedContractionCount(text) = 2
    /\ writing_style = "casual"

----------------------------------------------------------------------------
(* Properties of refinement and fusion together (checked under
   SpecPipeline) *)

\* the grammar issues (or the others) among the issues, in order
RECURSIVE IssuesWhere(_, _, _)
IssuesWhere(issues, i, grammar) ==
    IF i > Len(issues) THEN << >>
    ELSE IF grammar = IsGrammarIssue(issues[i])
         THEN << issues[i] >> \o IssuesWhere(issues, i + 1, grammar)
         ELSE IssuesWhere(issues, i + 1, grammar)

\* what the grammar checker produced, as fuse is handed it
ProducedGrammarIssues == [ k \in DOMAIN grammar_issues |-> grammar_issues[k].v ]

\* C20: the refinement runs before fusion and fusion sees only the refined
\* style: whenever the writing_style of the response is not formal (a text
\* downgraded from formal to casual included), language_issues holds no
\* style issue and holds every grammar issue the grammar checker produced,
\* none suppressed.
C20_NonFormalKeepsGrammarAndHasNoStyleIssue ==
    ( Succeeded /\ response.v.writing_style # "formal" ) =>
        /\ \A k \in DOMAIN response.v.language_issues :
              ~ IsStyleIssue(response.v.language_issues[k])
        /\ IssuesWhere(response.v.language_issues, 1, TRUE) = ProducedGrammarIssues

\* a text the classifier called formal was downgraded to casual; fusion
\* under "formal" would have reported a style issue and dropped a grammar
\* issue, and the response has every grammar issue and no style issue
C20_Witness ==
    /\ Succeeded
    /\ ClassifierStyle = "formal"
    /\ response.v.writing_style = "casual"
    /\ grammar_issues # << >>
    /\ LET formal == fuse(spell_errors, grammar_issues, sentences, "formal",
                          ml_spell_confidences)
       IN  /\ \E k \in DOMAIN formal : IsStyleIssue(formal[k])
           /\ IssuesWhere(formal, 1, TRUE) # ProducedGrammarIssues
    /\ IssuesWhere(response.v.language_issues, 1, TRUE) = ProducedGrammarIssues

----------------------------------------------------------------------------
(* Properties of the sentence ids (checked under SpecPipeline) *)

\* the sentence of this parse that has the id, or none
SentencesWithId(sid) ==
    { k \in DOMAIN sentence_data_list : sentence_data_list[k].sentence_id = sid }

\* the style issue names a token of the sentence with its id
StyleIssueDetectedIn(issue, k) ==
    issue["token"] \in Range(Split(Lower(sentence_data_list[k].text)))

\* the grammar issue is one the rules report for the sentence with its id
GrammarIssueDetectedIn(issue, k) ==
    LET r == check(sentence_data_list[k])
    IN  ~ r.raised /\ issue \in Range(r.value)

\* C21: within one predict_text_quality call the parser numbers the
\* non-empty sentences 0..n-1 in text order, and every sentence_id of a
\* grammar or style issue in language_issues lies in 0..n-1 and denotes the
\* sentence of that parse in which the issue was detected.
C21_IssueSentenceIdsDenoteParsedSentences ==
    Succeeded =>
        /\ \A k \in DOMAIN sentence_data_list :
              /\ sentence_data_list[k].sentence_id = k - 1
              /\ sentence_data_list[k].text # << >>
              /\ sentence_data_list[k].text = split_sentences(text)[k]
        /\ Len(sentence_data_list) = Len(split_sentences(text))
        /\ \A i \in DOMAIN response.v.language_issues :
              LET issue == response.v.language_issues[i]
              IN  ( IsStyleIssue(issue) \/ IsGrammarIssue(issue) ) =>
                    /\ issue["sentence_id"] \in 0..(Len(sentence_data_list) - 1)
                    /\ \E k \in SentencesWithId(issue["sentence_id"]) :
                          /\ k = issue["sentence_id"] + 1
                          /\ IsStyleIssue(issue) => StyleIssueDetectedIn(issue, k)
                          /\ IsGrammarIssue(issue) => GrammarIssueDetectedIn(issue, k)

\* a response for a text of two sentences with a style issue for the
\* second sentence and a grammar issue for the first
C21_Witness ==
    /\ Succeeded
    /\ Len(sentence_data_list) >= 2
    /\ \E i, j \in DOMAIN response.v.language_issues :
          /\ IsStyleIssue(response.v.language_issues[i])
          /\ response.v.language_issues[i]["sentence_id"] = 1
          /\ IsGrammarIssue(response.v.language_issues[j])
          /\ response.v.language_issues[j]["sentence_id"] = 0

----------------------------------------------------------------------------
(* Properties of the spell-confidence features (checked under SpecFeatures) *)

\* where the parse of the text has the word: << sentence, token >> positions
Occurrences(word) ==
    LET parsed == parse(text)
    IN  { << s, i >> \in (DOMAIN parsed) \X (1..Len(text)) :
            i \in DOMAIN parsed[s].tokens /\ parsed[s].tokens[i] = word }

\* the two fractions are the same number
SameNumber(p, q) == p.num * q.den = q.num * p.den

\* the handed features are those of the word as token i of sentence s
ReflectsContext(word, s, i) ==
    LET sentence == parse(text)[s]
        context == build_features(word, sentence.pos_tags[i].tag.v,
                                  sentence.tense, 1, i - 1,
                                  Len(sentence.tokens), FALSE)
    IN  /\ Lookup(features, <<"i","s","_","p","a","s","t","_","s","e","n","t","e","n","c","e">>)
             = Lookup(context, <<"i","s","_","p","a","s","t","_","s","e","n","t","e","n","c","e">>)
        /\ Lookup(features, <<"i","s","_","f","u","t","u","r","e","_","s","e","n","t","e","n","c","e">>)
             = Lookup(context, <<"i","s","_","f","u","t","u","r","e","_","s","e","n","t","e","n","c","e">>)
        /\ Lookup(features, <<"i","s","_","v","e","r","b">>)
             = Lookup(context, <<"i","s","_","v","e","r","b">>)
        /\ SameNumber(Lookup(features, <<"r","e","l","a","t","i","v","e","_","p","o","s","i","t","i","o","n">>),
                      Lookup(context, <<"r","e","l","a","t","i","v","e","_","p","o","s","i","t","i","o","n">>))

\* C22: the feature values handed to the spell-confidence classifier for a
\* flagged spelling error reflect the error's sentence context:
\* is_past_sentence and is_future_sentence are the parsed tense of the
\* sentence that contains the word, is_verb is the word's POS tag, and
\* relative_position is the word's index in its sentence divided by
\* max(sentence length, 1).
C22_SpellFeaturesReflectSentenceContext ==
    pc = "spell_handed" =>
        \E k \in DOMAIN spell_errors :
            LET word == SpellWord(spell_errors[k].v)
            IN  /\ ~ NoWord(word)
                /\ \/ Occurrences(word.v) = {}
                   \/ \E at \in Occurrences(word.v) :
                         ReflectsContext(word.v, at[1], at[2])

----------------------------------------------------------------------------
(* The inputs of fuse (checked under SpecFuse) *)

InFuse == pc \in { "fuse_spell", "fuse_style", "fuse_grammar" }

\* C23: fuse leaves its inputs unchanged: the spell_errors list, the
\* grammar_issues list, the sentences list, the confidence map and every
\* issue mapping inside them have the same keys and values after the call
\* as before it; severity, issue_type and the "suggestion" type are written
\* only to copies of the spelling errors.
C23_FuseLeavesInputsUnchanged ==
    [][ InFuse => UNCHANGED << spell_errors, grammar_issues, sentences,
                               ml_spell_confidences, writing_style >> ]_vars

\* fuse has returned a spelling issue that carries a severity and the
\* "suggestion" type which the spelling error it was made from lacks, and
\* a grammar issue and a sentence were handed too
C23_Witness ==
    /\ FuseReturned
    /\ grammar_issues # << >>
    /\ sentences # << >>
    /\ \E k \in DOMAIN spell_errors : \E i \in DOMAIN final_issues :
          /\ spell_errors[k].t = "dict"
          /\ ~ HasKey(spell_errors[k].v, "severity")
          /\ ~ HasKey(spell_errors[k].v, "type")
          /\ HasKey(final_issues[i], "severity")
          /\ HasKey(final_issues[i], "type")
          /\ final_issues[i]["type"] = "suggestion"
          /\ \A key \in DOMAIN spell_errors[k].v :
                final_issues[i][key] = spell_errors[k].v[key]

=============================================================================
